---- MODULE Spec2Model ----
(***************************************************************************)
(* Athena (Attorney Online 2 server): the per-connection packet handlers   *)
(* of internal/athena/netprotocol.go, the area type of internal/area, the  *)
(* OOC commands of internal/athena/commands.go and the AO2 string codec.   *)
(*                                                                         *)
(* One goroutine serves each connection, so the handlers of different      *)
(* sessions interleave.  A handler is cut into steps exactly where it      *)
(* leaves one area mutex and later writes a session field or takes another *)
(* mutex; pc[s] is the position of session s inside its handler.           *)
(***************************************************************************)
EXTENDS Integers, Sequences, FiniteSets, TLC

(* ------------------------------ bounds ------------------------------- *)
NumClients == 2
NumChars == 2
NumAreas == 2
BufSize == 1
HistSize == 2
MaxList == 2
MaxPlayers == 1
MaxLen == 5
MaxRaces == 1
MaxEvi == 1
MaxMsg == 2
MaxBans == 2

Clients == 1..NumClients
Chars == 0..(NumChars - 1)
Areas == 0..(NumAreas - 1)
Uids == 0..(NumClients - 1)
NoArea == 0 - 1
Spectator == 0 - 1
NoUid == 0 - 1

(* A numeric packet field as the client sends it: text that strconv.Atoi   *)
(* parses to val, or text it refuses.  The values offered are every index  *)
(* in range, the spectator id, one id below it and one past the range.     *)
NumField(v) == [isnum |-> TRUE, val |-> v]
BadField == [isnum |-> FALSE, val |-> 0]
CharFields == {NumField(v) : v \in (0 - 2)..NumChars} \cup {BadField}

VARIABLES clients, areas, playerCount, users, bans, crashed, out, last, races, text

vars == <<clients, areas, playerCount, users, bans, crashed, out, last, races, text>>

(* ------------------------------- codec ------------------------------- *)
(* Strings are sequences of one-character strings.  The alphabet offered   *)
(* spells the token <num> and holds the reserved character it stands for.  *)
Alphabet == {"<", "n", "u", "m", ">", "#"}
Strings == UNION {[1..k -> Alphabet] : k \in 0..MaxLen}

Reserved == {"%", "#", "$", "&"}

Escapes ==
    << [ch |-> "%", tok |-> <<"<", "p", "e", "r", "c", "e", "n", "t", ">">>],
       [ch |-> "#", tok |-> <<"<", "n", "u", "m", ">">>],
       [ch |-> "$", tok |-> <<"<", "d", "o", "l", "l", "a", "r", ">">>],
       [ch |-> "&", tok |-> <<"<", "a", "n", "d", ">">>] >>

HasPrefix(s, t) == Len(t) <= Len(s) /\ SubSeq(s, 1, Len(t)) = t
Drop(s, n) == SubSeq(s, n + 1, Len(s))

(* strings.NewReplacer(...).Replace: one pass from the left; where a token  *)
(* starts it is replaced and the scan goes on behind it.                    *)
RECURSIVE decode(_)
decode(s) ==
    IF s = << >> THEN << >>
    ELSE LET hit == {i \in 1..Len(Escapes) : HasPrefix(s, Escapes[i].tok)}
         IN IF hit = {} THEN <<Head(s)>> \o decode(Tail(s))
            ELSE LET i == CHOOSE k \in hit : \A j \in hit : k <= j
                 IN <<Escapes[i].ch>> \o decode(Drop(s, Len(Escapes[i].tok)))

encode_Raw(s) == s

RECURSIVE encode(_)
encode(s) ==
    IF s = << >> THEN << >>
    ELSE LET hit == {i \in 1..Len(Escapes) : Escapes[i].ch = Head(s)}
         IN (IF hit = {} THEN <<Head(s)>>
             ELSE Escapes[CHOOSE k \in hit : TRUE].tok) \o encode(Tail(s))

RECURSIVE TrimLeft(_)
TrimLeft(s) == IF s # << >> /\ Head(s) = " " THEN TrimLeft(Tail(s)) ELSE s
RECURSIVE TrimRight(_)
TrimRight(s) ==
    IF s # << >> /\ s[Len(s)] = " " THEN TrimRight(SubSeq(s, 1, Len(s) - 1)) ELSE s
TrimSpace(s) == TrimRight(TrimLeft(s))

NoText == [stage |-> "none", x |-> << >>, enc |-> << >>, dec |-> << >>]

(* ---------------------------- permissions ---------------------------- *)
PermissionField ==
    {"KICK", "BAN", "ADMIN", "MOD_EVI", "MOVE_USERS", "BYPASS_LOCK", "MODIFY_AREA", "CM"}

NoPerms == {}

HasPermission(perms, need) == need \subseteq perms

(* ------------------------------- areas ------------------------------- *)
NewArea ==
    [ taken |-> [c \in Chars |-> FALSE],
      players |-> 0,
      defhp |-> 10,
      prohp |-> 10,
      evidence |-> << >>,
      store |-> << >>,
      buffer |-> [i \in 1..BufSize |-> ""],
      cms |-> << >>,
      lock |-> "free",
      invited |-> {},
      cmsAllowed |-> TRUE,
      evidenceMode |-> "any",
      lockMusic |-> FALSE ]

InRange(c) == c \in Chars

(* AddChar: the join fails when the character is taken; indexing taken     *)
(* outside its length panics.                                              *)
AddChar(A, char) ==
    IF char # Spectator /\ ~InRange(char)
    THEN [ok |-> FALSE, panic |-> TRUE, area |-> A]
    ELSE IF char # Spectator /\ A.taken[char]
    THEN [ok |-> FALSE, panic |-> FALSE, area |-> A]
    ELSE [ok |-> TRUE, panic |-> FALSE,
          area |-> [A EXCEPT !.taken = IF char # Spectator
                                         THEN [@ EXCEPT ![char] = TRUE] ELSE @,
                             !.players = @ + 1]]

SwitchChar(A, old, new) ==
    IF new = Spectator
    THEN IF old # Spectator /\ ~InRange(old)
         THEN [ok |-> FALSE, panic |-> TRUE, area |-> A]
         ELSE [ok |-> TRUE, panic |-> FALSE,
               area |-> [A EXCEPT !.taken = IF old # Spectator
                                              THEN [@ EXCEPT ![old] = FALSE] ELSE @]]
    ELSE IF ~InRange(new)
    THEN [ok |-> FALSE, panic |-> TRUE, area |-> A]
    ELSE IF A.taken[new]
    THEN [ok |-> FALSE, panic |-> FALSE, area |-> A]
    ELSE [ok |-> TRUE, panic |-> FALSE,
          area |-> [A EXCEPT !.taken = IF old # Spectator
                                         THEN [@ EXCEPT ![new] = TRUE, ![old] = FALSE]
                                         ELSE [@ EXCEPT ![new] = TRUE]]]

RemoveChar(A, char) ==
    [A EXCEPT !.taken = IF char # Spectator THEN [@ EXCEPT ![char] = FALSE] ELSE @,
              !.players = @ - 1]

UpdateBuffer(A, s) == [A EXCEPT !.buffer = Append(Tail(@), s)]

(* ----------------------------- sessions ------------------------------ *)
NewClient ==
    [ conn |-> TRUE, uid |-> NoUid, area |-> NoArea, char |-> Spectator,
      hdid |-> << >>, version |-> "", auth |-> FALSE, perms |-> NoPerms, modName |-> "",
      oocName |-> << >>, lastmsg |-> << >>,
      prevMS |-> [any |-> FALSE, txt |-> << >>, sent |-> FALSE,
                 twice |-> FALSE, echo |-> FALSE], pc |-> "idle", arg |-> 0 ]

Closed == [NewClient EXCEPT !.conn = FALSE]

InitServer ==
    /\ clients = [s \in Clients |-> NewClient]
    /\ areas = [a \in Areas |-> NewArea]
    /\ playerCount = 0
    /\ users = [u \in {"admin"} |-> [password |-> "secret", perms |-> PermissionField]]
    /\ bans = << >>
    /\ crashed = FALSE
    /\ out = << >>
    /\ last = [op |-> "none", s |-> 0, res |-> "none"]
    /\ races = 0

Init == InitServer /\ text = NoText

(* ------------------------------ output ------------------------------- *)
Pkt(to, pkt) == [to |-> to, pkt |-> pkt]

RECURSIVE SendFrom(_, _, _)
SendFrom(n, S, pkt) ==
    IF n > NumClients THEN << >>
    ELSE (IF n \in S THEN <<Pkt(n, pkt)>> ELSE << >>) \o SendFrom(n + 1, S, pkt)

InArea(cl, a) == {c \in Clients : cl[c].conn /\ cl[c].area = a}
Connected(cl) == {c \in Clients : cl[c].conn}

writeToArea(cl, pkt, a) == SendFrom(1, InArea(cl, a), pkt)
writeToAll(cl, pkt) == SendFrom(1, Connected(cl), pkt)
sendPlayerArup(cl) == writeToAll(cl, "ARUP#0")

writeToAreaBuffer(ar, cl, s, tag) ==
    IF cl[s].area = NoArea THEN ar
    ELSE [ar EXCEPT ![cl[s].area] = UpdateBuffer(@, tag)]

(* ----------------------------- dispatcher ---------------------------- *)
MustJoin_HPOpen(op) == op \in {"CC", "MS", "MC", "RT", "CT", "PE", "DE", "EE", "ZZ"}

MustJoin(op) == op \in {"CC", "MS", "MC", "HP", "RT", "CT", "PE", "DE", "EE", "ZZ"}

Accepts(s, op) == ~(MustJoin(op) /\ clients[s].uid = NoUid)

Alive == ~crashed

Ready(s) == Alive /\ clients[s].conn /\ clients[s].pc = "idle"

Did(op, s, res) == last' = [op |-> op, s |-> s, res |-> res] /\ UNCHANGED <<races, text>>

Dropped(op, s) ==
    /\ Did(op, s, "dropped")
    /\ out' = << >>
    /\ UNCHANGED <<clients, areas, playerCount, users, bans, crashed>>

(* A panic in a handler goroutine is not recovered: the process exits, and  *)
(* every connection and every area goes with it.                           *)
Panic(op, s) ==
    /\ Did(op, s, "panic")
    /\ crashed' = TRUE
    /\ out' = << >>
    /\ clients' = [c \in Clients |-> Closed]
    /\ areas' = [a \in Areas |-> NewArea]
    /\ playerCount' = 0
    /\ UNCHANGED <<users, bans>>

GetUid(cl) == CHOOSE u \in Uids :
    /\ \A c \in Clients : ~(cl[c].conn /\ cl[c].uid = u)
    /\ \A v \in Uids : v < u => \E c \in Clients : cl[c].conn /\ cl[c].uid = v

(* ------------------------------- RD ---------------------------------- *)
HasJoined_Never(s) == FALSE

(* client.uid != -1, the first test of HI, ID, askchaa and RD *)
HasJoined(s) == clients[s].uid # NoUid

JoinPackets_DoneFirst(s) ==
    <<Pkt(s, "DONE"), Pkt(s, "LE"), Pkt(s, "CharsCheck"), Pkt(s, "HP#1"), Pkt(s, "HP#2")>>

(* The five writes of pktReqDone to the joining session, in program order. *)
JoinPackets(s) ==
    <<Pkt(s, "LE"), Pkt(s, "CharsCheck"), Pkt(s, "HP#1"), Pkt(s, "HP#2"), Pkt(s, "DONE")>>

pktReqDone(s) ==
    /\ Ready(s)
    /\ IF HasJoined(s)
       THEN Dropped("RD", s)
       ELSE LET cl1 == [clients EXCEPT ![s].uid = GetUid(clients), ![s].area = 0]
                r == AddChar(areas[0], Spectator)
            IN /\ clients' = cl1
               /\ playerCount' = playerCount + 1
               /\ areas' = [areas EXCEPT ![0] = r.area]
               /\ out' = sendPlayerArup(cl1) \o JoinPackets(s)
               /\ Did("RD", s, "ok")
               /\ UNCHANGED <<users, bans, crashed>>

(* ------------------------------- CC ---------------------------------- *)
(* SwitchChar runs under the area mutex; client.char is written after it. *)
pktChangeChar_Switch(s, f) ==
    /\ Ready(s)
    /\ IF ~Accepts(s, "CC") \/ clients[s].uid = NoUid \/ ~f.isnum
       THEN Dropped("CC", s)
       ELSE LET a == clients[s].area
                r == SwitchChar(areas[a], clients[s].char, f.val)
            IN IF r.panic THEN Panic("CC", s)
               ELSE IF ~r.ok THEN Dropped("CC", s)
               ELSE /\ areas' = [areas EXCEPT ![a] = r.area]
                    /\ clients' = [clients EXCEPT ![s].pc = "cc_set", ![s].arg = f.val]
                    /\ out' = << >>
                    /\ Did("CC", s, "switched")
                    /\ UNCHANGED <<playerCount, users, bans, crashed>>

pktChangeChar_Set(s) ==
    /\ Alive
    /\ clients[s].pc = "cc_set"
    /\ LET cl1 == [clients EXCEPT ![s].char = clients[s].arg, ![s].pc = "idle", ![s].arg = 0]
       IN /\ clients' = cl1
          /\ out' = <<Pkt(s, "PV")>> \o writeToArea(cl1, "CharsCheck", cl1[s].area)
    /\ Did("CC", s, "ok")
    /\ UNCHANGED <<areas, playerCount, users, bans, crashed>>

(* ------------------------------- MC ---------------------------------- *)
(* body[0] of MC is a song of the music list or the name of an area.       *)
Songs == {"song.mp3"}
SongField(n) == [kind |-> "song", song |-> n, area |-> NoArea]
AreaField(a) == [kind |-> "area", song |-> "", area |-> a]
MCFields == {SongField(n) : n \in Songs} \cup {AreaField(a) : a \in Areas}

MCRefused(s, f) ==
    \/ ~Accepts(s, "MC")
    \/ clients[s].uid = NoUid
    \/ ~f.isnum
    \/ f.val # clients[s].char

pktAM_Music(s, b, f) ==
    /\ Ready(s)
    /\ b.kind = "song"
    /\ IF MCRefused(s, f) \/ clients[s].char = Spectator
       THEN Dropped("MC", s)
       ELSE /\ out' = writeToArea(clients, "MC", clients[s].area)
            /\ areas' = writeToAreaBuffer(areas, clients, s, "MUSIC")
            /\ Did("MC", s, "music")
            /\ UNCHANGED <<clients, playerCount, users, bans, crashed>>

(* Area change: AddChar on the new area, RemoveChar on the old one and the *)
(* write of client.area are three steps, each area under its own mutex.    *)
pktAM_Add(s, b, f) ==
    /\ Ready(s)
    /\ b.kind = "area"
    /\ IF MCRefused(s, f) \/ b.area = clients[s].area
       THEN Dropped("MC", s)
       ELSE LET r == AddChar(areas[b.area], clients[s].char)
            IN IF r.panic THEN Panic("MC", s)
               ELSE IF ~r.ok THEN Dropped("MC", s)
               ELSE /\ areas' = writeToAreaBuffer([areas EXCEPT ![b.area] = r.area],
                                                  clients, s, "AREA")
                    /\ clients' = [clients EXCEPT ![s].pc = "mc_remove", ![s].arg = b.area]
                    /\ out' = << >>
                    /\ Did("MC", s, "added")
                    /\ UNCHANGED <<playerCount, users, bans, crashed>>

pktAM_Remove(s) ==
    /\ Alive
    /\ clients[s].pc = "mc_remove"
    /\ areas' = [areas EXCEPT ![clients[s].area] = RemoveChar(@, clients[s].char)]
    /\ clients' = [clients EXCEPT ![s].pc = "mc_point"]
    /\ out' = << >>
    /\ Did("MC", s, "removed")
    /\ UNCHANGED <<playerCount, users, bans, crashed>>

pktAM_Point(s) ==
    /\ Alive
    /\ clients[s].pc = "mc_point"
    /\ LET cl1 == [clients EXCEPT ![s].area = clients[s].arg, ![s].pc = "idle", ![s].arg = 0]
       IN /\ clients' = cl1
          /\ out' = <<Pkt(s, "LE"), Pkt(s, "HP#1"), Pkt(s, "HP#2")>>
                    \o sendPlayerArup(cl1)
                    \o writeToArea(cl1, "CharsCheck", cl1[s].area)
          /\ areas' = writeToAreaBuffer(areas, cl1, s, "AREA")
    /\ Did("MC", s, "ok")
    /\ UNCHANGED <<playerCount, users, bans, crashed>>

(* ------------------------------- HP ---------------------------------- *)
HPValid_Any(v) == TRUE

HPValid(v) == ~(v > 10 \/ v < 0)

SetHP(A, bar, v) ==
    IF ~HPValid(v) THEN [ok |-> FALSE, area |-> A]
    ELSE IF bar = 1 THEN [ok |-> TRUE, area |-> [A EXCEPT !.defhp = v]]
    ELSE IF bar = 2 THEN [ok |-> TRUE, area |-> [A EXCEPT !.prohp = v]]
    ELSE [ok |-> FALSE, area |-> A]

BarFields == {NumField(1), NumField(2), NumField(3), BadField}
ValueFields == {NumField(0), NumField(11), NumField(0 - 1), BadField}

(* A handler of a session that has no area yet works on a nil *Area: the   *)
(* first access to a field of it panics.                                   *)
NilArea(s) == clients[s].area = NoArea

pktHP(s, bar, value) ==
    /\ Ready(s)
    /\ IF ~Accepts(s, "HP") \/ ~bar.isnum \/ ~value.isnum
       THEN Dropped("HP", s)
       ELSE IF ~HPValid(value.val) THEN Dropped("HP", s)
       ELSE IF NilArea(s) THEN Panic("HP", s)
       ELSE LET a == clients[s].area
                r == SetHP(areas[a], bar.val, value.val)
            IN IF ~r.ok THEN Dropped("HP", s)
               ELSE /\ areas' = writeToAreaBuffer([areas EXCEPT ![a] = r.area],
                                                  clients, s, "JUD")
                    /\ out' = writeToArea(clients, "HP", a)
                    /\ Did("HP", s, "ok")
                    /\ UNCHANGED <<clients, playerCount, users, bans, crashed>>

(* ------------------------------- RT ---------------------------------- *)
pktWTCE(s) ==
    /\ Ready(s)
    /\ IF ~Accepts(s, "RT") \/ clients[s].uid = NoUid
       THEN Dropped("RT", s)
       ELSE /\ out' = writeToArea(clients, "RT", clients[s].area)
            /\ areas' = writeToAreaBuffer(areas, clients, s, "JUD")
            /\ Did("RT", s, "ok")
            /\ UNCHANGED <<clients, playerCount, users, bans, crashed>>

(* Area.UpdateBuffer holds no mutex: a.buffer = append(a.buffer[1:], s)    *)
(* reads the slice and stores the result in two steps, and another handler *)
(* can store in between.  pktWTCE_Read is the handler up to the read of    *)
(* a.buffer, pktWTCE_Write the store; the unsynchronised store builds on   *)
(* the slice read at that moment or on the one read before.                *)
pktWTCE_Read(s) ==
    /\ Ready(s)
    /\ IF ~Accepts(s, "RT") \/ clients[s].uid = NoUid
       THEN Dropped("RT", s)
       ELSE /\ out' = writeToArea(clients, "RT", clients[s].area)
            /\ clients' = [clients EXCEPT ![s].pc = "rt_write",
                                          ![s].arg = areas[clients[s].area].buffer]
            /\ Did("RT", s, "read")
            /\ UNCHANGED <<areas, playerCount, users, bans, crashed>>

pktWTCE_Write(s) ==
    /\ Alive
    /\ clients[s].pc = "rt_write"
    /\ \E base \in {areas[clients[s].area].buffer, clients[s].arg} :
         areas' = [areas EXCEPT ![clients[s].area].buffer = Append(Tail(base), "JUD")]
    /\ clients' = [clients EXCEPT ![s].pc = "idle", ![s].arg = 0]
    /\ out' = << >>
    /\ Did("RT", s, "ok")
    /\ UNCHANGED <<playerCount, users, bans, crashed>>

(* --------------------------- PE, DE, EE ------------------------------ *)
EviItems == {"e1", "e2"}
EviIds == {NumField(v) : v \in (0 - 1)..(MaxEvi + 1)} \cup {BadField}

(* store is the backing array of the evidence slice, evidence its first   *)
(* len cells.  append writes the next cell while the array has room and    *)
(* moves the list to a new array of grown capacity when it has none.       *)
Grow(cap) == IF cap = 0 THEN 1 ELSE 2 * cap

AddEvidence(A, evi) ==
    IF Len(A.evidence) < Len(A.store)
    THEN [A EXCEPT !.evidence = Append(@, evi), !.store[Len(A.evidence) + 1] = evi]
    ELSE [A EXCEPT !.evidence = Append(@, evi),
                   !.store = Append(A.evidence, evi)
                             \o [i \in 1..(Grow(Len(A.store)) - Len(A.evidence) - 1) |-> ""]]

(* RemoveEvidence and EditEvidence test len(evidence) >= id and then index *)
(* with id: an id equal to the length, or a negative one, is out of range. *)
RemoveEvidence(A, id) ==
    IF Len(A.evidence) >= id
    THEN IF id < 0 \/ id >= Len(A.evidence)
         THEN [panic |-> TRUE, area |-> A]
         ELSE [panic |-> FALSE,
               area |-> [A EXCEPT !.evidence = SubSeq(@, 1, id) \o SubSeq(@, id + 2, Len(@)),
                                  !.store = [i \in 1..Len(@) |->
                                               IF i >= id + 1 /\ i < Len(A.evidence)
                                               THEN @[i + 1] ELSE @[i]]]]
    ELSE [panic |-> FALSE, area |-> A]

EditEvidence(A, id, evi) ==
    IF Len(A.evidence) >= id
    THEN IF id < 0 \/ id >= Len(A.evidence)
         THEN [panic |-> TRUE, area |-> A]
         ELSE [panic |-> FALSE,
               area |-> [A EXCEPT !.evidence[id + 1] = evi, !.store[id + 1] = evi]]
    ELSE [panic |-> FALSE, area |-> A]

EviDone(op, s, A) ==
    /\ areas' = writeToAreaBuffer([areas EXCEPT ![clients[s].area] = A], clients, s, "EVI")
    /\ out' = writeToArea(clients, "LE", clients[s].area)
    /\ Did(op, s, "ok")
    /\ UNCHANGED <<clients, playerCount, users, bans, crashed>>

pktAddEvi(s, evi) ==
    /\ Ready(s)
    /\ IF ~Accepts(s, "PE") THEN Dropped("PE", s)
       ELSE IF NilArea(s) THEN Panic("PE", s)
       ELSE /\ Len(areas[clients[s].area].evidence) < MaxEvi
            /\ EviDone("PE", s, AddEvidence(areas[clients[s].area], evi))

pktRemoveEvi(s, id) ==
    /\ Ready(s)
    /\ IF ~Accepts(s, "DE") \/ ~id.isnum THEN Dropped("DE", s)
       ELSE IF NilArea(s) THEN Panic("DE", s)
       ELSE LET r == RemoveEvidence(areas[clients[s].area], id.val)
            IN IF r.panic THEN Panic("DE", s) ELSE EviDone("DE", s, r.area)

pktEditEvi(s, id, evi) ==
    /\ Ready(s)
    /\ IF ~Accepts(s, "EE") \/ ~id.isnum THEN Dropped("EE", s)
       ELSE IF NilArea(s) THEN Panic("EE", s)
       ELSE LET r == EditEvidence(areas[clients[s].area], id.val, evi)
            IN IF r.panic THEN Panic("EE", s) ELSE EviDone("EE", s, r.area)

(* GetEvidence returns the slice itself, not a copy: the handler joins    *)
(* the cells of the backing array after the mutex is released.  The _Store *)
(* actions are a handler up to the return of GetEvidence, pktEvi_Send the  *)
(* join, the broadcast and the buffer line.  A handler in between holds    *)
(* the length it was given (n), every value the area's list has had since *)
(* then (seen) and, once an append has moved the area's list to a new      *)
(* array, the cells of the array it was given (cells).                     *)
View(A) == [n |-> Len(A.evidence), seen |-> {A.evidence}, shared |-> TRUE, cells |-> << >>]

Readers(a) == {c \in Clients : clients[c].pc = "le_send" /\ clients[c].area = a}

EviStored(op, s, A) ==
    LET a == clients[s].area
        moved == Len(A.store) # Len(areas[a].store)
    IN /\ areas' = [areas EXCEPT ![a] = A]
       /\ clients' = [c \in Clients |->
              IF c = s THEN [clients[c] EXCEPT !.pc = "le_send", !.arg = View(A)]
              ELSE IF c \in Readers(a) /\ clients[c].arg.shared /\ moved
              THEN [clients[c] EXCEPT !.arg.shared = FALSE,
                                      !.arg.cells = SubSeq(areas[a].store, 1, clients[c].arg.n),
                                      !.arg.seen = @ \cup {A.evidence}]
              ELSE IF c \in Readers(a)
              THEN [clients[c] EXCEPT !.arg.seen = @ \cup {A.evidence}]
              ELSE clients[c]]
       /\ out' = << >>
       /\ Did(op, s, "stored")
       /\ UNCHANGED <<playerCount, users, bans, crashed>>

pktAddEvi_Store(s, evi) ==
    /\ Ready(s)
    /\ IF ~Accepts(s, "PE") THEN Dropped("PE", s)
       ELSE IF NilArea(s) THEN Panic("PE", s)
       ELSE /\ Len(areas[clients[s].area].evidence) < MaxList
            /\ EviStored("PE", s, AddEvidence(areas[clients[s].area], evi))

pktRemoveEvi_Store(s, id) ==
    /\ Ready(s)
    /\ IF ~Accepts(s, "DE") \/ ~id.isnum THEN Dropped("DE", s)
       ELSE IF NilArea(s) THEN Panic("DE", s)
       ELSE LET r == RemoveEvidence(areas[clients[s].area], id.val)
            IN IF r.panic THEN Panic("DE", s) ELSE EviStored("DE", s, r.area)

pktEditEvi_Store(s, id, evi) ==
    /\ Ready(s)
    /\ IF ~Accepts(s, "EE") \/ ~id.isnum THEN Dropped("EE", s)
       ELSE IF NilArea(s) THEN Panic("EE", s)
       ELSE LET r == EditEvidence(areas[clients[s].area], id.val, evi)
            IN IF r.panic THEN Panic("EE", s) ELSE EviStored("EE", s, r.area)

(* strings.Join over the slice GetEvidence returned *)
Joined_LE(s) ==
    IF clients[s].arg.shared
    THEN SubSeq(areas[clients[s].area].store, 1, clients[s].arg.n)
    ELSE clients[s].arg.cells

pktEvi_Send(s) ==
    /\ Alive
    /\ clients[s].pc = "le_send"
    /\ areas' = writeToAreaBuffer(areas, clients, s, "EVI")
    /\ out' = writeToArea(clients, "LE", clients[s].area)
    /\ clients' = [clients EXCEPT ![s].pc = "idle", ![s].arg = 0]
    /\ Did("LE", s, IF Joined_LE(s) \in clients[s].arg.seen THEN "ok" ELSE "torn")
    /\ UNCHANGED <<playerCount, users, bans, crashed>>

(* ------------------------------- ZZ ---------------------------------- *)
pktModcall(s) ==
    /\ Ready(s)
    /\ IF ~Accepts(s, "ZZ") THEN Dropped("ZZ", s)
       ELSE IF NilArea(s) THEN Panic("ZZ", s)
       ELSE /\ out' = SendFrom(1, {c \in Connected(clients) : clients[c].auth}, "ZZ")
            /\ areas' = writeToAreaBuffer(areas, clients, s, "MOD")
            /\ Did("ZZ", s, "ok")
            /\ UNCHANGED <<clients, playerCount, users, bans, crashed>>

(* --------------------------- connections ----------------------------- *)
HasCM(A, uid) == \E i \in 1..Len(A.cms) : A.cms[i] = uid

AddCM(A, uid) == IF HasCM(A, uid) THEN A ELSE [A EXCEPT !.cms = Append(@, uid)]

(* RemoveCM deletes the first entry equal to uid and returns. *)
RemoveCM(A, uid) ==
    IF ~HasCM(A, uid) THEN A
    ELSE LET i == CHOOSE k \in 1..Len(A.cms) :
                      A.cms[k] = uid /\ \A j \in 1..(k - 1) : A.cms[j] # uid
         IN [A EXCEPT !.cms = SubSeq(@, 1, i - 1) \o SubSeq(@, i + 1, Len(@))]

(* The reader goroutine of a session runs the clean-up after its handler   *)
(* returned: the session is idle.                                          *)
Disconnect(s) ==
    /\ Ready(s) \/ (Alive /\ clients[s].conn /\ clients[s].pc = "closing")
    /\ IF clients[s].uid = NoUid
       THEN UNCHANGED <<areas, playerCount>> /\ out' = << >>
       ELSE /\ areas' = [areas EXCEPT ![clients[s].area] =
                             RemoveCM(RemoveChar(@, clients[s].char), clients[s].uid)]
            /\ playerCount' = playerCount - 1
            /\ out' = sendPlayerArup([clients EXCEPT ![s] = Closed])
    /\ clients' = [clients EXCEPT ![s] = Closed]
    /\ Did("close", s, "ok")
    /\ UNCHANGED <<users, bans, crashed>>

(* The ban table of the store.  A ban is in force when its duration is -1  *)
(* or an instant after now; the model's clock stands at 0.                 *)
Ipid(s) == <<"ip", s>>

IsBanned(by, value) ==
    \E i \in 1..Len(bans) :
        bans[i][by] = value /\ (bans[i].duration = 0 - 1 \/ bans[i].duration > 0)

AddBan(B, ipid, hdid, until) ==
    Append(B, [id |-> Len(B) + 1, ipid |-> ipid, hdid |-> hdid, duration |-> until])

Connect(s) ==
    /\ Alive
    /\ ~clients[s].conn
    /\ IF IsBanned("ipid", Ipid(s))
       THEN out' = <<Pkt(s, "BD")>> /\ Did("accept", s, "banned") /\ UNCHANGED clients
       ELSE /\ clients' = [clients EXCEPT ![s] = NewClient]
            /\ out' = << >>
            /\ Did("accept", s, "ok")
    /\ UNCHANGED <<areas, playerCount, users, bans, crashed>>

(* ------------------------------- HI ---------------------------------- *)
HdidFields == {"", "d1", "d2"}
Hdid(h) == <<"md5", h>>

pktHdid(s, h) ==
    /\ Ready(s)
    /\ IF h = "" \/ HasJoined(s)
       THEN Dropped("HI", s)
       ELSE /\ clients' = [clients EXCEPT ![s].hdid = Hdid(h)]
            /\ out' = <<Pkt(s, "ID")>>
            /\ Did("HI", s, "ok")
            /\ UNCHANGED <<areas, playerCount, users, bans, crashed>>

(* ------------------------------- ID ---------------------------------- *)
pktId(s) ==
    /\ Ready(s)
    /\ IF HasJoined(s)
       THEN Dropped("ID", s)
       ELSE /\ clients' = [clients EXCEPT ![s].version = "2.8"]
            /\ out' = <<Pkt(s, "PN"), Pkt(s, "FL")>>
            /\ Did("ID", s, "ok")
            /\ UNCHANGED <<areas, playerCount, users, bans, crashed>>

(* ----------------------------- askchaa ------------------------------- *)
(* A full server answers BD and closes the connection; the reader          *)
(* goroutine runs the clean-up afterwards.                                 *)
pktResCount(s) ==
    /\ Ready(s)
    /\ IF HasJoined(s)
       THEN Dropped("askchaa", s)
       ELSE IF playerCount >= MaxPlayers
       THEN /\ clients' = [clients EXCEPT ![s].pc = "closing"]
            /\ out' = <<Pkt(s, "BD")>>
            /\ Did("askchaa", s, "full")
            /\ UNCHANGED <<areas, playerCount, users, bans, crashed>>
       ELSE /\ out' = <<Pkt(s, "SI")>>
            /\ Did("askchaa", s, "ok")
            /\ UNCHANGED <<clients, areas, playerCount, users, bans, crashed>>

(* ----------------------------- commands ----------------------------- *)
(* A handler that loops over several sessions threads a world w through    *)
(* the loop: the sessions, the areas and the packets written so far.       *)
World(cl, ar, o) == [cl |-> cl, ar |-> ar, out |-> o]
Say(w, to, pkt) == [w EXCEPT !.out = @ \o <<Pkt(to, pkt)>>]
SayAll(w, pkts) == [w EXCEPT !.out = @ \o pkts]
addToBuffer(w, s, tag) == [w EXCEPT !.ar = writeToAreaBuffer(w.ar, w.cl, s, tag)]
sendAreaServerMessage(w, a, msg) == SayAll(w, writeToArea(w.cl, msg, a))
sendLockArup(w) == SayAll(w, writeToAll(w.cl, "ARUP#3"))

(* the target lists a command can name: the uids in any order, no repeats *)
RECURSIVE Lists(_, _)
Lists(S, n) ==
    IF n = 0 THEN {<< >>}
    ELSE {<< >>} \cup {<<x>> \o l : x \in S, l \in Lists(S, n - 1)}
NoRepeat(l) == \A i, j \in 1..Len(l) : i # j => l[i] # l[j]
UidLists == {l \in Lists(Uids, NumClients) : l # << >> /\ NoRepeat(l)}

RECURSIVE getUidList(_, _)
getUidList(cl, T) ==
    IF T = << >> THEN << >>
    ELSE LET m == {c \in Clients : cl[c].conn /\ cl[c].uid = Head(T)}
         IN (IF m = {} THEN << >> ELSE <<CHOOSE c \in m : TRUE>>)
            \o getUidList(cl, Tail(T))

Admits_All(A, c) == TRUE

Admits(A, c) ==
    ~(A.lock = "locked"
      /\ c.uid \notin A.invited
      /\ ~HasPermission(c.perms, {"BYPASS_LOCK"}))

(* Client.ChangeArea: the admission test of the destination, then the area *)
(* change of MC: claim the character there, release it in the old area.    *)
ChangeArea(w, c, dest) ==
    LET me == w.cl[c]
        r == AddChar(w.ar[dest], me.char)
    IN IF ~Admits(w.ar[dest], me) \/ ~r.ok
       THEN [ok |-> FALSE, w |-> w]
       ELSE LET ar1 == [w.ar EXCEPT ![dest] = r.area]
                ar2 == [ar1 EXCEPT ![me.area] = RemoveChar(@, me.char)]
                cl1 == [w.cl EXCEPT ![c].area = dest]
            IN [ok |-> TRUE,
                w |-> World(cl1, ar2,
                            w.out \o <<Pkt(c, "LE"), Pkt(c, "HP#1"), Pkt(c, "HP#2")>>
                                  \o sendPlayerArup(cl1)
                                  \o writeToArea(cl1, "CharsCheck", dest))]

(* Client.ChangeCharacter: SwitchChar, and on success the new id, PV and   *)
(* CharsCheck to the area.                                                 *)
ChangeCharacter(w, c, id) ==
    LET me == w.cl[c]
        r == SwitchChar(w.ar[me.area], me.char, id)
    IN IF ~r.ok THEN w
       ELSE LET cl1 == [w.cl EXCEPT ![c].char = id]
            IN World(cl1, [w.ar EXCEPT ![me.area] = r.area],
                     w.out \o <<Pkt(c, "PV")>> \o writeToArea(cl1, "CharsCheck", me.area))

HasCMPermission_Any(w, s) == TRUE

HasCMPermission(w, s) ==
    \/ HasPermission(w.cl[s].perms, {"CM"})
    \/ HasCM(w.ar[w.cl[s].area], w.cl[s].uid)

Permission(cmd) ==
    IF cmd \in {"mkusr", "rmusr", "setrole"} THEN {"ADMIN"}
    ELSE IF cmd \in {"bg", "status", "uncm", "lock", "unlock", "invite", "uninvite",
                     "evimode", "kickarea", "lockmusic"} THEN {"CM"}
    ELSE IF cmd \in {"nointpres", "allowiniswap", "forcebglist", "allowcms", "lockbg"}
         THEN {"MODIFY_AREA"}
    ELSE IF cmd = "kick" THEN {"KICK"}
    ELSE IF cmd = "ban" THEN {"BAN"}
    ELSE {}

Allowed_AnyArea(s, cmd) ==
    \/ HasPermission(clients[s].perms, Permission(cmd))
    \/ /\ Permission(cmd) = {"CM"}
       /\ \E a \in Areas : HasCM(areas[a], clients[s].uid)

Allowed(s, cmd) ==
    \/ HasPermission(clients[s].perms, Permission(cmd))
    \/ /\ Permission(cmd) = {"CM"}
       /\ HasCM(areas[clients[s].area], clients[s].uid)

(* A command arrives in a CT packet, whose name field pktOOC checks and    *)
(* stores first; the sessions of these actions send their own fixed name.  *)
DefaultName(s) == [i \in 1..s |-> "u"]
NameTaken(cl, s, raw) == \E c \in Connected(cl) \ {s} : cl[c].oocName = raw
Entered(s) == [clients EXCEPT ![s].oocName = DefaultName(s)]

CmdRefusal(s, cmd) ==
    IF ~Accepts(s, "CT") THEN "dropped"
    ELSE IF NameTaken(clients, s, DefaultName(s)) THEN "name"
    ELSE IF ~Allowed(s, cmd) THEN "perm"
    ELSE "run"

Commit(cmd, s, res, w) ==
    /\ clients' = w.cl
    /\ areas' = w.ar
    /\ out' = w.out
    /\ Did(cmd, s, res)
    /\ UNCHANGED <<playerCount, users, bans, crashed>>

(* A command that acts on other sessions runs in the caller's goroutine    *)
(* and can cut into the handler a target is in the middle of.  races       *)
(* counts these cuts, and MaxRaces bounds them.                            *)
Busy(s, L) == {c \in Clients \ {s} :
                 clients[c].pc # "idle" /\ \E i \in 1..Len(L) : L[i] = c}

CommitCut(cmd, s, res, w, L) ==
    /\ races + Cardinality(Busy(s, L)) <= MaxRaces
    /\ clients' = w.cl
    /\ areas' = w.ar
    /\ out' = w.out
    /\ last' = [op |-> cmd, s |-> s, res |-> res]
    /\ races' = races + Cardinality(Busy(s, L))
    /\ UNCHANGED <<playerCount, users, bans, crashed, text>>

Start(s) == World(Entered(s), areas, << >>)

Refuse(cmd, s, why) ==
    IF why = "dropped" THEN Dropped(cmd, s)
    ELSE IF why = "name"
    THEN Commit(cmd, s, "name", Say(World(clients, areas, << >>), s, "SM:name taken"))
    ELSE Commit(cmd, s, "perm", Say(Start(s), s, "SM:no permission"))

Gate(cmd, s) == Ready(s) /\ CmdRefusal(s, cmd) # "run" /\ Refuse(cmd, s, CmdRefusal(s, cmd))
Runs(cmd, s) == Ready(s) /\ CmdRefusal(s, cmd) = "run"

(* ------------------------------- MS ---------------------------------- *)
LongText == [i \in 1..(MaxMsg + 1) |-> "h"]
ICTexts == {<<"h">>, <<" ", "h">>, << >>, LongText}
DeskFields == {"chat", "9"}
EmoteFields == {"0", "4", "9"}
ArgCounts == {15, 18, 19, 26}

(* The MS packets offered: every text with every character id in an        *)
(* otherwise valid packet, and one valid packet with each desk_mod, each   *)
(* emote_modifier and each argument count in turn.                         *)
MSPacket(desk, txt, emote, cid, args) ==
    [desk |-> desk, txt |-> txt, emote |-> emote, cid |-> cid, args |-> args]
MSPackets ==
    {MSPacket("chat", t, "0", c, 15) :
        t \in ICTexts, c \in {NumField(v) : v \in Chars} \cup {BadField}}
    \cup {MSPacket(d, <<"h">>, "0", NumField(0), 15) : d \in DeskFields}
    \cup {MSPacket("chat", <<"h">>, e, NumField(0), 15) : e \in EmoteFields}
    \cup {MSPacket("chat", <<"h">>, "0", NumField(0), n) : n \in ArgCounts}

(* prevMS is history, not server state: the text of the MS packet pktIC    *)
(* handled last for the session, trimmed, whether it was broadcast,        *)
(* whether it repeated the text of the packet before it (twice), and       *)
(* whether that packet before it had been broadcast (echo).                *)
Noted(s, t, sent) ==
    [clients EXCEPT ![s].prevMS =
        [any |-> TRUE, txt |-> t, sent |-> sent,
         twice |-> @.any /\ @.txt = t,
         echo |-> @.any /\ @.txt = t /\ @.sent]]

IsRepeat_Never(s, t) == FALSE

IsRepeat(s, t) == t = clients[s].lastmsg

ICSkip(s, t, res, reply) ==
    /\ clients' = Noted(s, t, FALSE)
    /\ out' = reply
    /\ Did("MS", s, res)
    /\ UNCHANGED <<areas, playerCount, users, bans, crashed>>

CharIdMatches_Any(s, cid) == TRUE

(* p.Body[8] != strconv.Itoa(client.char) *)
CharIdMatches(s, cid) == cid.isnum /\ cid.val = clients[s].char

pktIC(s, p) ==
    /\ Ready(s)
    /\ LET t == TrimSpace(p.txt)
           desk == p.desk
           cid == p.cid
           args == p.args
           em == IF p.emote = "4" THEN "6" ELSE p.emote
       IN IF ~Accepts(s, "MS") THEN Dropped("MS", s)
          ELSE IF clients[s].char = Spectator THEN ICSkip(s, t, "spectator", << >>)
          ELSE IF Len(t) > MaxMsg
          THEN ICSkip(s, t, "too long", <<Pkt(s, "SM:message too long")>>)
          ELSE IF IsRepeat(s, t) THEN ICSkip(s, t, "repeat", << >>)
          ELSE IF desk \notin {"chat", "0", "1", "2", "3", "4", "5"}
          THEN ICSkip(s, t, "desk_mod", << >>)
          ELSE IF em \notin {"0", "1", "2", "5", "6"} THEN ICSkip(s, t, "emote_modifier", << >>)
          ELSE IF ~CharIdMatches(s, cid) THEN ICSkip(s, t, "char_id", << >>)
          ELSE IF args >= 18 /\ args < 19 THEN Panic("MS", s)
          ELSE /\ clients' = [Noted(s, t, TRUE) EXCEPT ![s].lastmsg = t]
               /\ out' = writeToArea(clients, "MS", clients[s].area)
               /\ areas' = writeToAreaBuffer(areas, clients, s, "IC")
               /\ Did("MS", s, "sent")
               /\ UNCHANGED <<playerCount, users, bans, crashed>>

(* ------------------------------- CT ---------------------------------- *)
ServerName == <<"U", "n", "n", "a", "m", "e", "d", " ", "S", "e", "r", "v", "e", "r">>
OOCNames == {<<"a">>, <<" ", "a">>, <<"<", "n", "u", "m", ">">>, <<" ">>, ServerName}
OOCMsgs == {<<"h">>, <<"/", "x">>, LongText}

OOCReply(s, res, msg) ==
    /\ out' = <<Pkt(s, msg)>>
    /\ Did("CT", s, res)
    /\ UNCHANGED <<clients, areas, playerCount, users, bans, crashed>>

(* The taken-name test compares the stored, decoded names with the raw     *)
(* field of the packet; the name stored is the trimmed and decoded one.    *)
pktOOC(s, name, msg) ==
    /\ Ready(s)
    /\ LET dname == decode(TrimSpace(name))
           cl1 == [clients EXCEPT ![s].oocName = dname]
       IN IF ~Accepts(s, "CT") THEN Dropped("CT", s)
          ELSE IF dname = << >> \/ dname = ServerName
          THEN OOCReply(s, "invalid", "SM:invalid username")
          ELSE IF Len(msg) > MaxMsg THEN OOCReply(s, "too long", "SM:message too long")
          ELSE IF NameTaken(clients, s, name) THEN OOCReply(s, "name", "SM:name taken")
          ELSE IF HasPrefix(msg, <<"/">>)
          THEN /\ clients' = cl1
               /\ out' = <<Pkt(s, "SM:invalid command")>>
               /\ Did("CT", s, "command")
               /\ UNCHANGED <<areas, playerCount, users, bans, crashed>>
          ELSE /\ clients' = cl1
               /\ out' = writeToArea(cl1, "CT", cl1[s].area)
               /\ areas' = writeToAreaBuffer(areas, cl1, s, "OOC")
               /\ Did("CT", s, "ok")
               /\ UNCHANGED <<playerCount, users, bans, crashed>>

(* /login *)
UserNames == {"admin", "ghost"}
Passwords == {"secret", "wrong"}

AuthenticateUser(u, pw) ==
    IF u \in DOMAIN users /\ users[u].password = pw
    THEN [ok |-> TRUE, perms |-> users[u].perms]
    ELSE [ok |-> FALSE, perms |-> NoPerms]

cmdLogin(s, u, pw) ==
    IF ~Runs("login", s) THEN Gate("login", s)
    ELSE
           LET w0 == Start(s)
               a == AuthenticateUser(u, pw)
           IN IF clients[s].auth
              THEN Commit("login", s, "already", Say(w0, s, "SM:already logged in"))
              ELSE IF a.ok
              THEN Commit("login", s, "ok",
                       addToBuffer(addToBuffer(
                           SayAll([w0 EXCEPT !.cl[s].auth = TRUE, !.cl[s].perms = a.perms,
                                             !.cl[s].modName = u],
                                  <<Pkt(s, "SM:logged in"), Pkt(s, "AUTH#1"), Pkt(s, "SM:welcome")>>),
                           s, "AUTH"), s, "AUTH"))
              ELSE Commit("login", s, "failed",
                       addToBuffer(addToBuffer(Say(w0, s, "AUTH#0"), s, "AUTH"), s, "AUTH"))

(* Where another handler can write the store, /login is cut between the   *)
(* store's answer and the setters of the session: AuthenticateUser runs    *)
(* without any lock of the session held.                                   *)
cmdLogin_Auth(s, u, pw) ==
    IF ~Runs("login", s) THEN Gate("login", s)
    ELSE LET w0 == Start(s)
             a == AuthenticateUser(u, pw)
         IN IF clients[s].auth
            THEN Commit("login", s, "already", Say(w0, s, "SM:already logged in"))
            ELSE IF a.ok
            THEN Commit("login", s, "checked",
                     addToBuffer([w0 EXCEPT !.cl[s].pc = "login_set",
                                            !.cl[s].arg = <<u, a.perms>>], s, "AUTH"))
            ELSE Commit("login", s, "failed",
                     addToBuffer(addToBuffer(Say(w0, s, "AUTH#0"), s, "AUTH"), s, "AUTH"))

cmdLogin_Set(s) ==
    /\ Alive
    /\ clients[s].pc = "login_set"
    /\ Commit("login", s, "ok",
           addToBuffer(
               SayAll(World([clients EXCEPT ![s].auth = TRUE,
                                            ![s].perms = clients[s].arg[2],
                                            ![s].modName = clients[s].arg[1],
                                            ![s].pc = "idle", ![s].arg = 0],
                            areas, << >>),
                      <<Pkt(s, "SM:logged in"), Pkt(s, "AUTH#1"), Pkt(s, "SM:welcome")>>),
               s, "AUTH"))

(* /logout: the message to a caller that is not logged in is not followed  *)
(* by a return.                                                            *)
RemoveAuth(w, c) ==
    [w EXCEPT !.cl[c].auth = FALSE, !.cl[c].perms = NoPerms, !.cl[c].modName = ""]

cmdLogout(s) ==
    IF ~Runs("logout", s) THEN Gate("logout", s)
    ELSE LET w0 == Start(s)
             w1 == IF ~clients[s].auth THEN Say(w0, s, "SM:Invalid command.") ELSE w0
         IN Commit("logout", s, IF clients[s].auth THEN "ok" ELSE "invalid",
                RemoveAuth(addToBuffer(w1, s, "AUTH"), s))

(* /rmusr and /setrole write the store and then sweep the sessions.        *)
RECURSIVE Sweep(_, _, _, _, _)
Sweep(w, n, u, drop, perms) ==
    IF n > NumClients THEN w
    ELSE IF w.cl[n].conn /\ w.cl[n].auth /\ w.cl[n].modName = u
    THEN Sweep(IF drop THEN RemoveAuth(w, n) ELSE [w EXCEPT !.cl[n].perms = perms],
               n + 1, u, drop, perms)
    ELSE Sweep(w, n + 1, u, drop, perms)

StoreDone(cmd, s, w, us) ==
    /\ clients' = w.cl
    /\ areas' = w.ar
    /\ out' = w.out
    /\ users' = us
    /\ Did(cmd, s, "ok")
    /\ UNCHANGED <<playerCount, bans, crashed>>

cmdRemoveUser(s, u, dbok) ==
    IF ~Runs("rmusr", s) THEN Gate("rmusr", s)
    ELSE LET w0 == Start(s)
         IN IF u \notin DOMAIN users
            THEN Commit("rmusr", s, "no user", Say(w0, s, "SM:user does not exist"))
            ELSE IF ~dbok
            THEN Commit("rmusr", s, "failed", Say(w0, s, "SM:failed to remove user"))
            ELSE StoreDone("rmusr", s,
                     addToBuffer(Sweep(Say(w0, s, "SM:removed user"), 1, u, TRUE, NoPerms), s, "CMD"),
                     [n \in DOMAIN users \ {u} |-> users[n]])

Roles == [admin |-> PermissionField, mod |-> {"KICK", "BAN"}]

cmdChangeRole(s, u, role, dbok) ==
    IF ~Runs("setrole", s) THEN Gate("setrole", s)
    ELSE LET w0 == Start(s)
         IN IF role \notin DOMAIN Roles
            THEN Commit("setrole", s, "no role", Say(w0, s, "SM:invalid role"))
            ELSE IF u \notin DOMAIN users
            THEN Commit("setrole", s, "no user", Say(w0, s, "SM:user does not exist"))
            ELSE IF ~dbok
            THEN Commit("setrole", s, "failed", Say(w0, s, "SM:failed to change permissions"))
            ELSE StoreDone("setrole", s,
                     addToBuffer(Sweep(Say(w0, s, "SM:role updated"), 1, u, FALSE, Roles[role]),
                                 s, "CMD"),
                     [users EXCEPT ![u].perms = Roles[role]])

(* /kickarea *)
RECURSIVE AreaKickLoop(_, _, _, _)
AreaKickLoop(w, s, L, n) ==
    IF L = << >> THEN [w |-> w, count |-> n]
    ELSE LET c == Head(L)
         IN IF \/ w.cl[c].area # w.cl[s].area
               \/ HasPermission(w.cl[c].perms, {"BYPASS_LOCK"})
            THEN AreaKickLoop(w, s, Tail(L), n)
            ELSE IF c = s
            THEN AreaKickLoop(Say(w, s, "SM:cannot kick yourself"), s, Tail(L), n)
            ELSE AreaKickLoop(Say(ChangeArea(w, c, 0).w, c, "SM:kicked from area"),
                              s, Tail(L), n + 1)

cmdAreaKick(s, T) ==
    IF ~Runs("kickarea", s) THEN Gate("kickarea", s)
    ELSE
           LET w0 == Start(s)
               r == AreaKickLoop(w0, s, getUidList(w0.cl, T), 0)
               report == IF r.count = 0 THEN "SM:kicked 0 clients"
                         ELSE IF r.count = 1 THEN "SM:kicked 1 clients"
                         ELSE "SM:kicked n clients"
           IN IF clients[s].area = 0
              THEN Commit("kickarea", s, "area0", Say(w0, s, "SM:cannot kick from area 0"))
              ELSE CommitCut("kickarea", s, "ok",
                       addToBuffer(Say(r.w, s, report), s, "CMD"),
                       getUidList(w0.cl, T))

(* /move *)
RECURSIVE MoveLoop(_, _, _)
MoveLoop(w, L, dest) ==
    IF L = << >> THEN w
    ELSE LET r == ChangeArea(w, Head(L), dest)
         IN IF ~r.ok THEN MoveLoop(w, Tail(L), dest)
            ELSE MoveLoop(Say(r.w, Head(L), "SM:you were moved"), Tail(L), dest)

AreaIds == (0 - 1)..NumAreas

cmdMove(s, T, id) ==
    IF ~Runs("move", s) THEN Gate("move", s)
    ELSE
           LET w0 == Start(s)
               r == ChangeArea(w0, s, id)
           IN IF id < 0 \/ id > NumAreas - 1
              THEN Commit("move", s, "invalid", Say(w0, s, "SM:invalid area"))
              ELSE IF T # << >>
              THEN IF ~HasPermission(clients[s].perms, {"MOVE_USERS"})
                   THEN Commit("move", s, "perm", Say(w0, s, "SM:no permission"))
                   ELSE CommitCut("move", s, "moved users",
                            addToBuffer(Say(MoveLoop(w0, getUidList(w0.cl, T), id),
                                            s, "SM:moved n users"), s, "CMD"),
                            getUidList(w0.cl, T))
              ELSE IF ~r.ok
              THEN Commit("move", s, "refused",
                       SayAll(w0, <<Pkt(s, "SM:not invited"), Pkt(s, "SM:moved to")>>))
              ELSE Commit("move", s, "ok", Say(r.w, s, "SM:moved to"))

(* /charselect *)
RECURSIVE CharSelectLoop(_, _, _)
CharSelectLoop(w, s, L) ==
    IF L = << >> THEN w
    ELSE LET c == Head(L)
         IN IF w.cl[c].area # w.cl[s].area \/ w.cl[c].char = Spectator
            THEN CharSelectLoop(w, s, Tail(L))
            ELSE CharSelectLoop(
                     SayAll(ChangeCharacter(w, c, Spectator),
                            <<Pkt(c, "DONE"), Pkt(c, "SM:moved to character select")>>),
                     s, Tail(L))

cmdCharSelect(s, T) ==
    IF ~Runs("charselect", s) THEN Gate("charselect", s)
    ELSE
           LET w0 == Start(s)
           IN IF T = << >>
              THEN Commit("charselect", s, "ok", Say(ChangeCharacter(w0, s, Spectator), s, "DONE"))
              ELSE IF ~HasCMPermission(w0, s)
              THEN Commit("charselect", s, "perm", Say(w0, s, "SM:no permission"))
              ELSE CommitCut("charselect", s, "others",
                       addToBuffer(Say(CharSelectLoop(w0, s, getUidList(w0.cl, T)),
                                       s, "SM:moved n to character select"), s, "CMD"),
                       getUidList(w0.cl, T))

(* /lock, /unlock, /invite, /uninvite *)
SetLock(w, a, mode) == [w EXCEPT !.ar[a].lock = mode]
AddInvited(A, uid) ==
    IF uid \in A.invited THEN [ok |-> FALSE, area |-> A]
    ELSE [ok |-> TRUE, area |-> [A EXCEPT !.invited = @ \cup {uid}]]
RemoveInvited(A, uid) ==
    IF uid \notin A.invited THEN [ok |-> FALSE, area |-> A]
    ELSE [ok |-> TRUE, area |-> [A EXCEPT !.invited = @ \ {uid}]]
ClearInvited_Keep(A) == A

ClearInvited(A) == [A EXCEPT !.invited = {}]

(* the closing loop of /lock: every session of the area is invited *)
InvitePresent(w, a) ==
    [w EXCEPT !.ar[a].invited = @ \cup {w.cl[c].uid : c \in InArea(w.cl, a)}]

LockFlags == {"", "-s"}

cmdLock(s, flag) ==
    IF ~Runs("lock", s) THEN Gate("lock", s)
    ELSE LET w0 == Start(s)
             a == clients[s].area
             Done(mode, msg) ==
                 sendLockArup(InvitePresent(
                     addToBuffer(sendAreaServerMessage(SetLock(w0, a, mode), a, msg),
                                 s, "CMD"), a))
         IN IF flag = "-s"
            THEN Commit("lock", s, "spectatable", Done("spectatable", "SM:set to spectatable"))
            ELSE IF areas[a].lock = "locked"
            THEN Commit("lock", s, "already", Say(w0, s, "SM:already locked"))
            ELSE IF a = 0
            THEN Commit("lock", s, "area0", Say(w0, s, "SM:cannot lock area 0"))
            ELSE Commit("lock", s, "locked", Done("locked", "SM:locked the area"))

cmdUnlock(s) ==
    IF ~Runs("unlock", s) THEN Gate("unlock", s)
    ELSE LET w0 == Start(s)
             a == clients[s].area
         IN IF areas[a].lock = "free"
            THEN Commit("unlock", s, "not locked", Say(w0, s, "SM:not locked"))
            ELSE Commit("unlock", s, "ok",
                     addToBuffer(
                         sendAreaServerMessage(
                             sendLockArup([SetLock(w0, a, "free") EXCEPT
                                              !.ar[a] = ClearInvited(@)]),
                             a, "SM:unlocked the area"),
                         s, "CMD"))

RECURSIVE InviteLoop(_, _, _)
InviteLoop(w, a, L) ==
    IF L = << >> THEN w
    ELSE LET c == Head(L)
             r == AddInvited(w.ar[a], w.cl[c].uid)
         IN IF ~r.ok THEN InviteLoop(w, a, Tail(L))
            ELSE InviteLoop(Say([w EXCEPT !.ar[a] = r.area], c, "SM:you were invited"),
                            a, Tail(L))

cmdInvite(s, T) ==
    IF ~Runs("invite", s) THEN Gate("invite", s)
    ELSE LET w0 == Start(s)
             a == clients[s].area
         IN IF areas[a].lock = "free"
            THEN Commit("invite", s, "unlocked", Say(w0, s, "SM:area is unlocked"))
            ELSE Commit("invite", s, "ok",
                     addToBuffer(Say(InviteLoop(w0, a, getUidList(w0.cl, T)),
                                     s, "SM:invited n users"), s, "CMD"))

RECURSIVE UninviteLoop(_, _, _, _)
UninviteLoop(w, s, a, L) ==
    IF L = << >> THEN w
    ELSE LET c == Head(L)
             r == RemoveInvited(w.ar[a], w.cl[c].uid)
             w1 == [w EXCEPT !.ar[a] = r.area]
             w2 == IF /\ w1.cl[c].area = a
                      /\ w1.ar[a].lock = "locked"
                      /\ ~HasPermission(w1.cl[c].perms, {"BYPASS_LOCK"})
                   THEN ChangeArea(Say(w1, c, "SM:kicked from area"), c, 0).w
                   ELSE w1
         IN IF c = s \/ HasCM(w.ar[a], w.cl[c].uid) \/ ~r.ok
            THEN UninviteLoop(w, s, a, Tail(L))
            ELSE UninviteLoop(Say(w2, c, "SM:you were uninvited"), s, a, Tail(L))

cmdUninvite(s, T) ==
    IF ~Runs("uninvite", s) THEN Gate("uninvite", s)
    ELSE LET w0 == Start(s)
             a == clients[s].area
         IN IF areas[a].lock = "free"
            THEN Commit("uninvite", s, "unlocked", Say(w0, s, "SM:area is unlocked"))
            ELSE CommitCut("uninvite", s, "ok",
                     addToBuffer(Say(UninviteLoop(w0, s, a, getUidList(w0.cl, T)),
                                     s, "SM:uninvited n users"), s, "CMD"),
                     getUidList(w0.cl, T))

(* -------------------------- specifications --------------------------- *)
(* /cm *)
RECURSIVE CMLoop(_, _, _)
CMLoop(w, s, L) ==
    IF L = << >> THEN w
    ELSE LET c == Head(L)
             a == w.cl[c].area
         IN IF a # w.cl[s].area \/ HasCM(w.ar[a], w.cl[c].uid)
            THEN CMLoop(w, s, Tail(L))
            ELSE CMLoop(Say([w EXCEPT !.ar[a] = AddCM(@, w.cl[c].uid)], c, "SM:became CM"),
                        s, Tail(L))

cmdCM(s, T) ==
    IF ~Runs("cm", s) THEN Gate("cm", s)
    ELSE LET w0 == Start(s)
             me == clients[s]
             A == areas[me.area]
             Done(w, msg) ==
                 SayAll(addToBuffer(Say(w, s, msg), s, "CMD"), writeToAll(w.cl, "ARUP#2"))
         IN IF me.char = Spectator
            THEN Commit("cm", s, "spectator", Say(w0, s, "SM:spectating"))
            ELSE IF ~A.cmsAllowed /\ ~HasCMPermission(w0, s)
            THEN Commit("cm", s, "refused", Say(w0, s, "SM:no permission"))
            ELSE IF T = << >>
            THEN IF HasCM(A, me.uid)
                 THEN Commit("cm", s, "already", Say(w0, s, "SM:already a CM"))
                 ELSE IF Len(A.cms) > 0 /\ ~HasPermission(me.perms, {"CM"})
                 THEN Commit("cm", s, "has cm", Say(w0, s, "SM:area has a CM"))
                 ELSE Commit("cm", s, "ok",
                          Done([w0 EXCEPT !.ar[me.area] = AddCM(@, me.uid)], "SM:became CM"))
            ELSE IF ~HasCMPermission(w0, s)
            THEN Commit("cm", s, "refused", Say(w0, s, "SM:no permission"))
            ELSE Commit("cm", s, "ok",
                     Done(CMLoop(w0, s, getUidList(w0.cl, T)), "SM:CMed n users"))

(* Area.AddCM holds no mutex: another handler can run between its         *)
(* membership test and its append.  cmdCM_Check is a /cm without argument  *)
(* up to the test inside AddCM, cmdCM_Append the append and the rest of    *)
(* the handler; the append extends the slice it reads at that moment or    *)
(* the one read with the test.                                             *)
cmdCM_Check(s) ==
    IF ~Runs("cm", s) THEN Gate("cm", s)
    ELSE LET w0 == Start(s)
             me == clients[s]
             A == areas[me.area]
         IN IF me.char = Spectator
            THEN Commit("cm", s, "spectator", Say(w0, s, "SM:spectating"))
            ELSE IF ~A.cmsAllowed /\ ~HasCMPermission(w0, s)
            THEN Commit("cm", s, "refused", Say(w0, s, "SM:no permission"))
            ELSE IF HasCM(A, me.uid)
            THEN Commit("cm", s, "already", Say(w0, s, "SM:already a CM"))
            ELSE IF Len(A.cms) > 0 /\ ~HasPermission(me.perms, {"CM"})
            THEN Commit("cm", s, "has cm", Say(w0, s, "SM:area has a CM"))
            ELSE Commit("cm", s, "tested",
                     [w0 EXCEPT !.cl[s].pc = "cm_append", !.cl[s].arg = A.cms])

cmdCM_Append(s) ==
    /\ Alive
    /\ clients[s].pc = "cm_append"
    /\ LET a == clients[s].area
           cl1 == [clients EXCEPT ![s].pc = "idle", ![s].arg = 0]
       IN \E base \in {areas[a].cms, clients[s].arg} :
            Commit("cm", s, "ok",
                SayAll(addToBuffer(
                           Say(World(cl1, [areas EXCEPT ![a].cms = Append(base, clients[s].uid)],
                                     << >>), s, "SM:became CM"), s, "CMD"),
                       writeToAll(cl1, "ARUP#2")))

(* /uncm without argument *)
cmdUnCM(s) ==
    IF ~Runs("uncm", s) THEN Gate("uncm", s)
    ELSE LET w0 == Start(s)
             me == clients[s]
         IN IF ~HasCM(areas[me.area], me.uid)
            THEN Commit("uncm", s, "not cm", Say(w0, s, "SM:not a CM"))
            ELSE Commit("uncm", s, "ok",
                     SayAll(addToBuffer(
                                Say([w0 EXCEPT !.ar[me.area] = RemoveCM(@, me.uid)],
                                    s, "SM:no longer a CM"), s, "CMD"),
                            writeToAll(w0.cl, "ARUP#2")))

(* /allowcms: the default branch of the switch sends its message and      *)
(* does not return.                                                        *)
Toggles == {"true", "false", "x"}

cmdAllowCMs(s, arg) ==
    IF ~Runs("allowcms", s) THEN Gate("allowcms", s)
    ELSE LET w0 == Start(s)
             a == clients[s].area
             w1 == IF arg = "true" THEN [w0 EXCEPT !.ar[a].cmsAllowed = TRUE]
                   ELSE IF arg = "false" THEN [w0 EXCEPT !.ar[a].cmsAllowed = FALSE]
                   ELSE Say(w0, s, "SM:Invalid command.")
         IN Commit("allowcms", s, IF arg \in {"true", "false"} THEN "ok" ELSE "invalid",
                addToBuffer(sendAreaServerMessage(w1, a, "SM:allowed CMs"), s, "CMD"))

(* /lockmusic *)
cmdLockMusic(s, arg) ==
    IF ~Runs("lockmusic", s) THEN Gate("lockmusic", s)
    ELSE LET w0 == Start(s)
             a == clients[s].area
             Set(v) == Commit("lockmusic", s, "ok",
                           addToBuffer(sendAreaServerMessage(
                               [w0 EXCEPT !.ar[a].lockMusic = v], a, "SM:CM-only music"),
                               s, "CMD"))
         IN IF arg = "true" THEN Set(TRUE)
            ELSE IF arg = "false" THEN Set(FALSE)
            ELSE Commit("lockmusic", s, "invalid", Say(w0, s, "SM:Invalid command."))

(* /evimode *)
EviModes == {"mods", "cms", "any", "x"}

(* Client.CanAlterEvidence: in mode mods the MOD_EVI right, in mode cms a  *)
(* CM seat in the area or the MOD_EVI right, in mode any everybody.        *)
CanAlterEvidence(w, s) ==
    LET A == w.ar[w.cl[s].area]
    IN IF A.evidenceMode = "mods" THEN HasPermission(w.cl[s].perms, {"MOD_EVI"})
       ELSE IF A.evidenceMode = "cms"
       THEN HasCM(A, w.cl[s].uid) \/ HasPermission(w.cl[s].perms, {"MOD_EVI"})
       ELSE TRUE

MayPickMods_Any(perms) == TRUE

MayPickMods(perms) == HasPermission(perms, {"MOD_EVI"})

cmdSetEviMod(s, mode) ==
    IF ~Runs("evimode", s) THEN Gate("evimode", s)
    ELSE LET w0 == Start(s)
             a == clients[s].area
             Set(m) == Commit("evimode", s, "ok",
                           addToBuffer(sendAreaServerMessage(
                               [w0 EXCEPT !.ar[a].evidenceMode = m], a, "SM:set the evidence mode"),
                               s, "CMD"))
         IN IF ~CanAlterEvidence(w0, s)
            THEN Commit("evimode", s, "not allowed", Say(w0, s, "SM:not allowed to change the evidence mode"))
            ELSE IF mode = "mods"
            THEN IF ~MayPickMods(clients[s].perms)
                 THEN Commit("evimode", s, "perm", Say(w0, s, "SM:no permission for this evidence mode"))
                 ELSE Set("mods")
            ELSE IF mode = "cms" THEN Set("cms")
            ELSE IF mode = "any" THEN Set("any")
            ELSE Commit("evimode", s, "invalid", Say(w0, s, "SM:Invalid evidence mode."))

(* /ban: the records go to the store, the KB packets to client, the       *)
(* caller, and the connection of each target is closed; its reader         *)
(* goroutine runs the clean-up afterwards.                                 *)
Durations == {"perma", "1h", "x"}

RECURSIVE BanLoop(_, _, _, _, _)
BanLoop(w, B, s, L, until) ==
    IF L = << >> THEN [w |-> w, bans |-> B]
    ELSE LET c == Head(L)
         IN BanLoop([Say(w, s, "KB") EXCEPT !.cl[c].pc = "closing"],
                    AddBan(B, Ipid(c), w.cl[c].hdid, until), s, Tail(L), until)

cmdBan(s, T, d) ==
    IF ~Runs("ban", s) THEN Gate("ban", s)
    ELSE
           LET w0 == Start(s)
               L == getUidList(w0.cl, T)
               r == BanLoop(w0, bans, s, L, IF d = "perma" THEN 0 - 1 ELSE 1)
               w == addToBuffer(SayAll(Say(r.w, s, "SM:banned n"),
                                       sendPlayerArup(r.w.cl)), s, "CMD")
           IN IF d = "x"
              THEN Commit("ban", s, "duration", Say(w0, s, "SM:cannot parse duration"))
              ELSE /\ Len(bans) + Len(L) <= MaxBans
                   /\ clients' = w.cl
                   /\ areas' = w.ar
                   /\ out' = w.out
                   /\ bans' = r.bans
                   /\ Did("ban", s, "ok")
                   /\ UNCHANGED <<playerCount, users, crashed>>

Moderators == {1}

Next ==
    \/ \E s \in Clients :
        \/ pktReqDone(s)
        \/ \E f \in CharFields : pktChangeChar_Switch(s, f)
        \/ pktChangeChar_Set(s)
    \/ \E s \in Moderators :
        \/ \E u \in UserNames, pw \in Passwords : cmdLogin(s, u, pw)
        \/ \E T \in UidLists \cup {<< >>}, id \in AreaIds : cmdMove(s, T, id)
        \/ \E T \in UidLists \cup {<< >>} : cmdCharSelect(s, T)
        \/ \E T \in UidLists : cmdAreaKick(s, T)

Spec == Init /\ [][Next]_vars

(* The locks: the moderator's area commands against the area changes of    *)
(* every session.                                                          *)
NextLock ==
    \/ \E s \in Clients :
        \/ pktReqDone(s)
        \/ \E b \in MCFields, f \in CharFields : pktAM_Add(s, b, f)
        \/ pktAM_Remove(s)
        \/ pktAM_Point(s)
    \/ \E s \in Moderators :
        \/ \E u \in UserNames, pw \in Passwords : cmdLogin(s, u, pw)
        \/ \E T \in UidLists \cup {<< >>}, id \in AreaIds : cmdMove(s, T, id)
        \/ \E flag \in LockFlags : cmdLock(s, flag)
        \/ cmdUnlock(s)
        \/ \E T \in UidLists : cmdInvite(s, T)
        \/ \E T \in UidLists : cmdUninvite(s, T)
        \/ \E T \in UidLists : cmdAreaKick(s, T)

SpecLock == Init /\ [][NextLock]_vars

(* In-character chat: joining, choosing a character, speaking. *)
NextIC ==
    \E s \in Clients :
        \/ pktReqDone(s)
        \/ \E f \in CharFields : pktChangeChar_Switch(s, f)
        \/ pktChangeChar_Set(s)
        \/ \E p \in MSPackets : pktIC(s, p)

SpecIC == Init /\ [][NextIC]_vars

(* /cm where the area's cmsAllowed toggle is switched by a moderator. *)
NextAllow ==
    \/ \E s \in Clients :
        \/ pktReqDone(s)
        \/ \E T \in UidLists \cup {<< >>} : cmdCM(s, T)
    \/ \E s \in Clients \ Moderators :
        \/ \E f \in CharFields : pktChangeChar_Switch(s, f)
        \/ pktChangeChar_Set(s)
        \/ \E b \in MCFields, f \in CharFields : pktAM_Add(s, b, f)
        \/ pktAM_Remove(s)
        \/ pktAM_Point(s)
    \/ \E s \in Moderators :
        \/ \E u \in UserNames, pw \in Passwords : cmdLogin(s, u, pw)
        \/ \E arg \in Toggles : cmdAllowCMs(s, arg)

SpecAllow == Init /\ [][NextAllow]_vars

(* The evidence mode: a session that can seat itself as CM and a          *)
(* moderator that logs in and out.                                         *)
NextEvi ==
    \/ \E s \in Clients :
        \/ pktReqDone(s)
        \/ \E mode \in EviModes : cmdSetEviMod(s, mode)
    \/ \E s \in Clients \ Moderators :
        \/ \E f \in CharFields : pktChangeChar_Switch(s, f)
        \/ pktChangeChar_Set(s)
        \/ cmdCM(s, << >>)
    \/ \E s \in Moderators :
        \/ \E u \in UserNames, pw \in Passwords : cmdLogin(s, u, pw)
        \/ cmdLogout(s)

SpecEvi == Init /\ [][NextEvi]_vars

(* Evidence packets in an area whose evidence mode a moderator sets. *)
NextEviAlter ==
    \/ \E s \in Clients :
        \/ pktReqDone(s)
        \/ \E evi \in EviItems : pktAddEvi(s, evi)
        \/ \E id \in EviIds : pktRemoveEvi(s, id)
        \/ \E id \in EviIds, evi \in EviItems : pktEditEvi(s, id, evi)
    \/ \E s \in Moderators :
        \/ \E u \in UserNames, pw \in Passwords : cmdLogin(s, u, pw)
        \/ \E mode \in EviModes : cmdSetEviMod(s, mode)

SpecEviAlter == Init /\ [][NextEviAlter]_vars

(* Music in an area whose lockMusic toggle a moderator switches. *)
NextMusic ==
    \/ \E s \in Clients :
        \/ pktReqDone(s)
    \/ \E s \in Clients \ Moderators :
        \/ \E f \in CharFields : pktChangeChar_Switch(s, f)
        \/ pktChangeChar_Set(s)
        \/ \E b \in MCFields, f \in CharFields : pktAM_Music(s, b, f)
        \/ cmdCM(s, << >>)
    \/ \E s \in Moderators :
        \/ \E u \in UserNames, pw \in Passwords : cmdLogin(s, u, pw)
        \/ \E arg \in Toggles : cmdLockMusic(s, arg)

SpecMusic == Init /\ [][NextMusic]_vars

(* Two handlers at the CM set of one area: a session seats and unseats    *)
(* itself while a moderator seats sessions by uid.                         *)
NextSeat ==
    \/ \E s \in Clients :
        \/ pktReqDone(s)
        \/ \E f \in CharFields : pktChangeChar_Switch(s, f)
        \/ pktChangeChar_Set(s)
    \/ \E s \in Clients \ Moderators :
        \/ cmdCM_Check(s)
        \/ cmdCM_Append(s)
        \/ cmdUnCM(s)
    \/ \E s \in Moderators :
        \/ \E u \in UserNames, pw \in Passwords : cmdLogin(s, u, pw)
        \/ \E T \in UidLists : cmdCM(s, T)

SpecSeat == Init /\ [][NextSeat]_vars

(* The history buffer of an area configured with room for HistSize       *)
(* events, and two sessions appending to it.                               *)
InitHist ==
    /\ clients = [s \in Clients |-> NewClient]
    /\ areas = [a \in Areas |-> [NewArea EXCEPT !.buffer = [i \in 1..HistSize |-> ""]]]
    /\ playerCount = 0
    /\ users = [u \in {"admin"} |-> [password |-> "secret", perms |-> PermissionField]]
    /\ bans = << >>
    /\ crashed = FALSE
    /\ out = << >>
    /\ last = [op |-> "none", s |-> 0, res |-> "none"]
    /\ races = 0
    /\ text = NoText

NextHist ==
    \E s \in Clients :
        \/ pktReqDone(s)
        \/ pktWTCE_Read(s)
        \/ pktWTCE_Write(s)

SpecHist == InitHist /\ [][NextHist]_vars

(* Two sessions at the evidence list of area 0. *)
NextLE ==
    \E s \in Clients :
        \/ pktReqDone(s)
        \/ \E evi \in EviItems : pktAddEvi_Store(s, evi)
        \/ \E id \in EviIds : pktRemoveEvi_Store(s, id)
        \/ \E id \in EviIds, evi \in EviItems : pktEditEvi_Store(s, id, evi)
        \/ pktEvi_Send(s)

SpecLE == Init /\ [][NextLE]_vars

(* The handshake of every session, in any order, with a server that has  *)
(* room for MaxPlayers.                                                    *)
NextJoin ==
    \E s \in Clients :
        \/ \E h \in HdidFields : pktHdid(s, h)
        \/ pktId(s)
        \/ pktResCount(s)
        \/ pktReqDone(s)
        \/ Disconnect(s)
        \/ Connect(s)

SpecJoin == Init /\ [][NextJoin]_vars

(* Sessions without any right that seat themselves as CM at the same     *)
(* time; nobody seats another session.                                     *)
NextSelfCM ==
    \E s \in Clients :
        \/ pktReqDone(s)
        \/ \E f \in CharFields : pktChangeChar_Switch(s, f)
        \/ pktChangeChar_Set(s)
        \/ cmdCM_Check(s)
        \/ cmdCM_Append(s)

SpecSelfCM == Init /\ [][NextSelfCM]_vars

(* In-character messages of sessions spread over the areas: one text      *)
(* with every character id in an otherwise valid packet.                   *)
MSCharIds ==
    {p \in MSPackets : p.txt = <<"h">> /\ p.desk = "chat" /\ p.emote = "0" /\ p.args = 15}

NextMS ==
    \/ \E s \in Clients :
        \/ pktReqDone(s)
        \/ \E p \in MSCharIds : pktIC(s, p)
    \/ \E s \in Clients \ Moderators :
        \/ \E f \in CharFields : pktChangeChar_Switch(s, f)
        \/ pktChangeChar_Set(s)
        \/ \E b \in MCFields, f \in CharFields : pktAM_Add(s, b, f)
        \/ pktAM_Remove(s)
        \/ pktAM_Point(s)

SpecMS == Init /\ [][NextMS]_vars

(* Out-of-character chat and its names. *)
NextOOC ==
    \E s \in Clients :
        \/ pktReqDone(s)
        \/ \E name \in OOCNames, msg \in OOCMsgs : pktOOC(s, name, msg)
        \/ Disconnect(s)
        \/ Connect(s)

SpecOOC == Init /\ [][NextOOC]_vars

(* The dispatcher's gate.  The joiners complete RD and then use the judge  *)
(* and evidence packets; the other sessions stay before RD and send every  *)
(* opcode flagged MustJoin.                                                *)
Joiners == {1}

NextGate ==
    \/ \E s \in Joiners :
        \/ pktReqDone(s)
        \/ Disconnect(s)
        \/ Connect(s)
    \/ \E s \in Clients :
        \/ \E bar \in BarFields, value \in ValueFields : pktHP(s, bar, value)
        \/ pktWTCE(s)
        \/ \E evi \in EviItems : pktAddEvi(s, evi)
        \/ \E id \in EviIds : pktRemoveEvi(s, id)
        \/ \E id \in EviIds, evi \in EviItems : pktEditEvi(s, id, evi)
        \/ pktModcall(s)
    \/ \E s \in Clients \ Joiners :
        \/ \E f \in CharFields : pktChangeChar_Switch(s, f)
        \/ \E p \in MSPackets : pktIC(s, p)
        \/ \E b \in MCFields, f \in CharFields : pktAM_Music(s, b, f)
        \/ \E b \in MCFields, f \in CharFields : pktAM_Add(s, b, f)
        \/ \E name \in OOCNames, msg \in OOCMsgs : pktOOC(s, name, msg)

SpecGate == Init /\ [][NextGate]_vars

(* The codec on its own: a string is encoded for the wire and decoded back. *)
InitCodec ==
    /\ InitServer
    /\ text \in {[NoText EXCEPT !.stage = "input", !.x = x] : x \in Strings}

Encode ==
    /\ text.stage = "input"
    /\ text' = [text EXCEPT !.stage = "encoded", !.enc = encode(text.x)]
    /\ UNCHANGED <<clients, areas, playerCount, users, bans, crashed, out, last, races>>

Decode ==
    /\ text.stage = "encoded"
    /\ text' = [text EXCEPT !.stage = "decoded", !.dec = decode(text.enc)]
    /\ UNCHANGED <<clients, areas, playerCount, users, bans, crashed, out, last, races>>

NextCodec == Encode \/ Decode

SpecCodec == InitCodec /\ [][NextCodec]_vars

(* The admission test of /move: the moderator locks and invites, every     *)
(* session moves itself.                                                   *)
NextMove ==
    \/ \E s \in Clients :
        \/ pktReqDone(s)
        \/ \E id \in AreaIds : cmdMove(s, << >>, id)
    \/ \E s \in Moderators :
        \/ \E u \in UserNames, pw \in Passwords : cmdLogin(s, u, pw)
        \/ \E flag \in LockFlags : cmdLock(s, flag)
        \/ cmdUnlock(s)
        \/ \E T \in UidLists : cmdInvite(s, T)
        \/ \E T \in UidLists : cmdUninvite(s, T)

SpecMove == Init /\ [][NextMove]_vars

(* The CM set: a session without rights changes character and area and    *)
(* makes itself CM; it and the moderator use the commands that need the    *)
(* CM right.                                                               *)
NextCM ==
    \/ \E s \in Clients :
        \/ pktReqDone(s)
        \/ \E flag \in LockFlags : cmdLock(s, flag)
        \/ cmdUnlock(s)
    \/ \E s \in Clients \ Moderators :
        \/ \E f \in CharFields : pktChangeChar_Switch(s, f)
        \/ pktChangeChar_Set(s)
        \/ \E b \in MCFields, f \in CharFields : pktAM_Add(s, b, f)
        \/ pktAM_Remove(s)
        \/ pktAM_Point(s)
        \/ \E T \in UidLists \cup {<< >>} : cmdCM(s, T)
    \/ \E s \in Moderators :
        \/ \E u \in UserNames, pw \in Passwords : cmdLogin(s, u, pw)

SpecCM == Init /\ [][NextCM]_vars

(* The accounts: every session logs in and out, and the administrators    *)
(* remove accounts and change roles.                                       *)
NextAuth ==
    \E s \in Clients :
        \/ pktReqDone(s)
        \/ \E u \in UserNames, pw \in Passwords : cmdLogin_Auth(s, u, pw)
        \/ cmdLogin_Set(s)
        \/ cmdLogout(s)
        \/ \E u \in UserNames, dbok \in BOOLEAN : cmdRemoveUser(s, u, dbok)
        \/ \E u \in UserNames, role \in {"admin", "mod", "x"}, dbok \in BOOLEAN :
              cmdChangeRole(s, u, role, dbok)

SpecAuth == Init /\ [][NextAuth]_vars

(* The bans: handshake, join and reconnect against the moderator's /ban.   *)
NextBan ==
    \/ \E s \in Clients :
        \/ \E h \in HdidFields : pktHdid(s, h)
        \/ pktReqDone(s)
        \/ Disconnect(s)
        \/ Connect(s)
    \/ \E s \in Moderators :
        \/ \E u \in UserNames, pw \in Passwords : cmdLogin(s, u, pw)
        \/ \E T \in UidLists, d \in Durations : cmdBan(s, T, d)

SpecBan == Init /\ [][NextBan]_vars

(* ------------------------------ claims ------------------------------- *)
Joined(s) == clients[s].conn /\ clients[s].uid # NoUid
Quiescent == \A s \in Clients : clients[s].pc = "idle"
Holders(a, c) == {s \in Clients : Joined(s) /\ clients[s].area = a /\ clients[s].char = c}
Members(a) == {s \in Clients : Joined(s) /\ clients[s].area = a}

(* C1: whenever no handler is in progress, a character slot of an area is  *)
(* marked taken exactly when some session is in that area with that        *)
(* character.                                                              *)
C1_TakenIffHeld ==
    Quiescent => \A a \in Areas, c \in Chars : areas[a].taken[c] <=> Holders(a, c) # {}

(* C2: no two sessions of one area hold the same character, spectators     *)
(* aside; stated where it is weakest, with no handler in progress.         *)
C2_NoSharedCharacter ==
    Quiescent => \A a \in Areas, c \in Chars : Cardinality(Holders(a, c)) <= 1

(* C3: whenever no handler is in progress, the players count of an area is *)
(* the number of joined sessions in it.                                    *)
C3_PlayersIsHeadCount ==
    Quiescent => \A a \in Areas : areas[a].players = Cardinality(Members(a))

(* C4: no step takes a session into an area that is locked, by an MC area  *)
(* change or by a /move, unless the session is invited there or holds      *)
(* BYPASS_LOCK.                                                            *)
Entering(s, a) ==
    \/ clients[s].pc = "idle" /\ clients'[s].pc = "mc_remove" /\ clients'[s].arg = a
    \/ clients'[s].pc = clients[s].pc /\ clients[s].area # a /\ clients'[s].area = a

C4_LockedAdmitsInvitedOnly ==
    [][\A s \in Clients, a \in Areas :
        (Entering(s, a) /\ areas[a].lock = "locked")
            => \/ clients[s].uid \in areas[a].invited
               \/ HasPermission(clients[s].perms, {"BYPASS_LOCK"})]_vars

(* C5: the lock state of area 0 is free in every reachable state.          *)
C5_LobbyNeverLocked == areas[0].lock = "free"

(* C10: a character id outside [0, C) other than -1 is refused without a   *)
(* fault, and every session's character stays -1 or an index in [0, C).    *)
C10_CharIdChecked ==
    /\ ~crashed
    /\ \A s \in Clients : clients[s].char = Spectator \/ clients[s].char \in Chars

GatedOps == {"CC", "MS", "MC", "HP", "RT", "CT", "PE", "DE", "EE", "ZZ"}

(* C6: a packet with an opcode flagged mustJoin from a session whose uid   *)
(* is -1 writes to no session and changes no session, area or store; and   *)
(* the uid of a session leaves -1 in its RD step and in no other, and goes *)
(* back to -1 only when the connection ends.                               *)
C6_UnjoinedIsSilent ==
    [][\A s \in Clients :
        /\ (last'.s = s /\ last'.op \in GatedOps /\ clients[s].uid = NoUid)
              => /\ out' = << >>
                 /\ UNCHANGED <<clients, areas, playerCount, users, bans, crashed>>
        /\ (clients[s].uid = NoUid /\ clients'[s].uid # NoUid)
              => (last'.op = "RD" /\ last'.s = s)
        /\ (last'.op = "RD" /\ last'.s = s /\ clients[s].uid = NoUid)
              => clients'[s].uid # NoUid
        /\ (clients[s].uid # NoUid /\ clients'[s].uid = NoUid)
              => ~clients'[s].conn]_vars

C6_Witness ==
    /\ last.op = "HP"
    /\ last.res = "dropped"
    /\ clients[last.s].uid = NoUid
    /\ \E t \in Clients : Joined(t)

(* C8: no two connected sessions have the same non-empty oocName.          *)
C8_UniqueOOCNames ==
    \A s, t \in Clients :
        (s # t /\ clients[s].conn /\ clients[t].conn /\ clients[s].oocName # << >>)
            => clients[s].oocName # clients[t].oocName

NoBroadcast(o) == \A i \in 1..Len(o) : o[i].pkt # "MS"

(* C9 as stated: the second of two successive MS packets of a session with *)
(* the same trimmed body[4] causes no MS broadcast and no IC entry in the  *)
(* area buffer.                                                            *)
C9_SecondIsSilent ==
    [][\A s \in Clients :
        (last'.op = "MS" /\ last'.s = s /\ clients'[s].prevMS.twice)
            => (NoBroadcast(out') /\ areas' = areas)]_vars

(* C9 amended: when an MS packet of a session was broadcast, the next MS   *)
(* packet of that session with the same trimmed body[4] causes no MS       *)
(* broadcast and no IC entry in the area buffer.                           *)
C9_RepeatOfBroadcastIsSilent ==
    [][\A s \in Clients :
        (last'.op = "MS" /\ last'.s = s /\ clients'[s].prevMS.echo)
            => (NoBroadcast(out') /\ areas' = areas)]_vars

C9_Witness ==
    \E s \in Clients :
        /\ last.op = "MS" /\ last.s = s /\ last.res = "repeat"
        /\ clients[s].prevMS.echo
        /\ clients[s].prevMS.txt = <<"h">>

(* C7 as stated: decode(encode(x)) = x for every string x, the strings     *)
(* that contain a literal wire token included.                             *)
C7_RoundTripAll == text.stage = "decoded" => text.dec = text.x

HasToken(s) ==
    \E i \in 1..Len(s), k \in 1..Len(Escapes) : HasPrefix(Drop(s, i - 1), Escapes[k].tok)

(* C7 amended: decode(encode(x)) = x for every string x that contains none *)
(* of the literal tokens <percent>, <num>, <dollar>, <and>; and encode(x)  *)
(* holds none of the reserved characters % # $ &.                          *)
C7_RoundTrip ==
    /\ (text.stage = "decoded" /\ ~HasToken(text.x)) => text.dec = text.x
    /\ text.stage \in {"encoded", "decoded"}
           => \A i \in 1..Len(text.enc) : text.enc[i] \notin Reserved

C7_Witness ==
    /\ text.stage = "decoded"
    /\ ~HasToken(text.x)
    /\ \E i \in 1..Len(text.x) : text.x[i] \in Reserved
    /\ \E i \in 1..Len(text.x) : text.x[i] = "<"

(* C11: a DE or EE packet of a joined session whose index is outside       *)
(* [0, len), whether equal to the length, above it or negative, does not   *)
(* fault and leaves the evidence of the area as it was.                    *)
C11_EvidenceIndexChecked ==
    [][\A s \in Clients, id \in EviIds, evi \in EviItems :
        (/\ Joined(s) /\ id.isnum
         /\ id.val < 0 \/ id.val >= Len(areas[clients[s].area].evidence)
         /\ pktRemoveEvi(s, id) \/ pktEditEvi(s, id, evi))
            => /\ ~crashed'
               /\ areas'[clients[s].area].evidence = areas[clients[s].area].evidence]_vars

(* C12: both HP bars of every area stay within [0, 10]; and an HP packet   *)
(* whose value is not a number in [0, 10], or whose bar is not 1 or 2,     *)
(* changes no area (neither bar, no buffer entry) and writes no packet.    *)
HPRejected(bar, value) ==
    \/ ~bar.isnum \/ ~value.isnum
    \/ value.val > 10 \/ value.val < 0
    \/ bar.val \notin {1, 2}

C12_HPBounded ==
    /\ [](\A a \in Areas : areas[a].defhp \in 0..10 /\ areas[a].prohp \in 0..10)
    /\ [][\A s \in Clients, bar \in BarFields, value \in ValueFields :
            (HPRejected(bar, value) /\ pktHP(s, bar, value))
                => (out' = << >> /\ areas' = areas)]_vars

C12_Witness ==
    /\ last.op = "HP" /\ last.res = "dropped"
    /\ Joined(last.s)
    /\ areas[clients[last.s].area].defhp = 0
    /\ areas[clients[last.s].area].prohp = 10

(* C13: a /ban with a valid duration writes a KB packet to every session   *)
(* it closes, and adds one ban record for each of them.                    *)
C13_TargetGetsKB ==
    [][(last'.op = "ban" /\ last'.res = "ok" /\ bans' # bans)
        => LET hit == {c \in Clients : clients[c].pc # "closing"
                                        /\ clients'[c].pc = "closing"}
           IN /\ \A c \in hit : \E i \in 1..Len(out') : out'[i] = Pkt(c, "KB")
              /\ Len(bans') = Len(bans) + Cardinality(hit)]_vars

(* C14: an HI packet whose HDID the store reports banned gets no ID reply  *)
(* and ends the connection, and no session whose HDID is banned completes  *)
(* RD.                                                                     *)
C14_BannedHdidRefused ==
    [][\A s \in Clients :
        /\ \A h \in HdidFields \ {""} :
              (IsBanned("hdid", Hdid(h)) /\ pktHdid(s, h))
                  => /\ \A i \in 1..Len(out') : out'[i] # Pkt(s, "ID")
                     /\ ~clients'[s].conn \/ clients'[s].pc = "closing"
        /\ (/\ clients[s].hdid # << >> /\ IsBanned("hdid", clients[s].hdid)
            /\ ~Joined(s) /\ pktReqDone(s))
              => clients'[s].uid = NoUid]_vars

C16_LoginEffects ==
    [][\A s \in Clients :
        /\ (~clients[s].auth /\ clients'[s].auth)
              => /\ last' = [op |-> "login", s |-> s, res |-> "ok"]
                 /\ clients'[s].modName \in DOMAIN users'
                 /\ clients'[s].perms = users'[clients'[s].modName].perms
                 /\ \E i \in 1..Len(out') : out'[i] = Pkt(s, "AUTH#1")
        /\ last' = [op |-> "login", s |-> s, res |-> "failed"]
              => /\ clients'[s].auth = clients[s].auth
                 /\ clients'[s].perms = clients[s].perms
                 /\ clients'[s].modName = clients[s].modName
                 /\ \E i \in 1..Len(out') : out'[i] = Pkt(s, "AUTH#0")
        /\ last' = [op |-> "login", s |-> s, res |-> "already"]
              => /\ clients' = Entered(s)
                 /\ UNCHANGED <<areas, users, bans>>]_vars

(* C17: a /logout of a session that is not logged in writes "Invalid       *)
(* command." and changes nothing, the area buffer included; a /logout of   *)
(* a session that is logged in clears auth, perms and modName.             *)
C17_LogoutRejected ==
    [][\A s \in Clients :
        (last'.op = "logout" /\ last'.s = s /\ last'.res \in {"ok", "invalid"})
            => IF clients[s].auth
               THEN /\ ~clients'[s].auth
                    /\ clients'[s].perms = NoPerms
                    /\ clients'[s].modName = ""
               ELSE /\ out' = <<Pkt(s, "SM:Invalid command.")>>
                    /\ clients' = Entered(s)
                    /\ UNCHANGED <<areas, users, bans>>]_vars

(* C18: no connected session is authenticated under a name that /rmusr    *)
(* has removed from the store (no account is ever created again here).     *)
C18_NoAuthForRemovedUser ==
    \A s \in Clients :
        (clients[s].conn /\ clients[s].auth) => clients[s].modName \in DOMAIN users

(* C19: the perms of every connected session that is authenticated under  *)
(* a name of the store are the permissions the store holds for that name.  *)
C19_PermsFollowStore ==
    \A s \in Clients :
        (clients[s].conn /\ clients[s].auth /\ clients[s].modName \in DOMAIN users)
            => clients[s].perms = users[clients[s].modName].perms

(* C20: a /kickarea from an area other than area 0 takes to area 0 every   *)
(* listed session of that area that is not the caller and holds no         *)
(* BYPASS_LOCK, and changes the area of no other session; from area 0 it   *)
(* moves nobody; and the count it reports is the number of sessions it     *)
(* moved.                                                                  *)
C20_AreaKickFrame ==
    [][\A s \in Moderators, T \in UidLists :
        (Runs("kickarea", s) /\ cmdAreaKick(s, T))
            => LET A == clients[s].area
                   due == {c \in Clients \ {s} :
                             /\ Joined(c) /\ clients[c].area = A
                             /\ \E i \in 1..Len(T) : T[i] = clients[c].uid
                             /\ ~HasPermission(clients[c].perms, {"BYPASS_LOCK"})}
                   moved == {c \in Clients : clients'[c].area # clients[c].area}
               IN IF A = 0 THEN moved = {}
                  ELSE /\ moved = due
                       /\ \A c \in moved : clients'[c].area = 0
                       /\ \E i \in 1..Len(out') :
                             out'[i] = Pkt(s, IF Cardinality(moved) = 0
                                              THEN "SM:kicked 0 clients"
                                              ELSE IF Cardinality(moved) = 1
                                              THEN "SM:kicked 1 clients"
                                              ELSE "SM:kicked n clients")]_vars

(* C21: a /move of a session into an area that is locked, where its uid is *)
(* not invited and it holds no BYPASS_LOCK, leaves the session where it    *)
(* is, the character slots and the player counts of every area as they     *)
(* were, and writes the caller "You are not invited to that area.".        *)
C21_MoveRefused ==
    [][\A s \in Clients, id \in Areas :
        (/\ Runs("move", s)
         /\ areas[id].lock = "locked"
         /\ clients[s].uid \notin areas[id].invited
         /\ ~HasPermission(clients[s].perms, {"BYPASS_LOCK"})
         /\ cmdMove(s, << >>, id))
            => /\ clients'[s].area = clients[s].area
               /\ clients'[s].char = clients[s].char
               /\ \A a \in Areas : /\ areas'[a].taken = areas[a].taken
                                   /\ areas'[a].players = areas[a].players
               /\ playerCount' = playerCount
               /\ \E i \in 1..Len(out') : out'[i] = Pkt(s, "SM:not invited")]_vars

C21_Witness ==
    /\ last.op = "move" /\ last.res = "refused"
    /\ clients[last.s].area = 0
    /\ areas[1].lock = "locked"
    /\ clients[last.s].uid \notin areas[1].invited

(* C22: an RD of a session that has not joined gives it a uid other than   *)
(* -1, raises the server's player count and area 0's player count by one   *)
(* each, puts the session in area 0 as a spectator, and the session is     *)
(* written LE, CharsCheck, HP#1, HP#2 and DONE in that order, DONE being    *)
(* the last packet it is written.                                          *)
JoinReply(o, s) ==
    SelectSeq(o, LAMBDA p : p.to = s /\ p.pkt \in {"LE", "CharsCheck", "HP#1", "HP#2", "DONE"})

C22_JoinSequence ==
    [][\A s \in Clients :
        (clients[s].uid = NoUid /\ pktReqDone(s))
            => /\ clients'[s].uid # NoUid
               /\ playerCount' = playerCount + 1
               /\ areas'[0].players = areas[0].players + 1
               /\ clients'[s].area = 0
               /\ clients'[s].char = Spectator
               /\ JoinReply(out', s) =
                    <<Pkt(s, "LE"), Pkt(s, "CharsCheck"), Pkt(s, "HP#1"),
                      Pkt(s, "HP#2"), Pkt(s, "DONE")>>
               /\ out'[Len(out')] = Pkt(s, "DONE")]_vars

(* A second session has joined while the first one is in the server. *)
C22_Witness ==
    /\ last.op = "RD" /\ last.res = "ok"
    /\ playerCount = 2
    /\ areas[0].players = 2
    /\ clients[last.s].uid # NoUid
    /\ out[Len(out)] = Pkt(last.s, "DONE")

(* C23: an MS packet is broadcast, entered in the buffer or stored as the  *)
(* sender's last message only when the sender is not a spectator and its   *)
(* charID equals the packet's char_id field; the broadcast then goes to    *)
(* the sessions of the sender's area and to no other. An MS of a spectator *)
(* or with another char_id writes no packet, no buffer entry and leaves    *)
(* lastmsg as it was.                                                      *)
MSSent(o) == {i \in 1..Len(o) : o[i].pkt = "MS"}

NewCMs(a) == {areas'[a].cms[i] : i \in 1..Len(areas'[a].cms)}
                \ {areas[a].cms[i] : i \in 1..Len(areas[a].cms)}

EviRejected == {"not allowed", "perm", "invalid", "dropped", "name"}

FreeMeansNobodyInvited(ar) ==
    \A a \in Areas : ar[a].lock = "free" => ar[a].invited = {}

C27_LockedMusicIsCMOnly ==
    [][\A s \in Clients, b \in MCFields, f \in CharFields :
        (/\ clients[s].area \in Areas
         /\ areas[clients[s].area].lockMusic
         /\ ~HasCM(areas[clients[s].area], clients[s].uid)
         /\ pktAM_Music(s, b, f))
            => /\ \A i \in 1..Len(out') : out'[i].pkt # "MC"
               /\ areas'[clients[s].area].buffer = areas[clients[s].area].buffer]_vars

(* C28: the CM set of an area never holds the same uid twice, whatever the *)
(* interleaving of the /cm and /uncm of different sessions.                *)
C28_CMSetHasNoDuplicates ==
    \A a \in Areas : NoRepeat(areas[a].cms)

(* C29: every append to the history buffer of an area, also one made while *)
(* another session is appending, leaves the buffer at its length, drops    *)
(* the oldest entry and puts the event behind all the entries that were    *)
(* there, so that no event appended before it is lost.                     *)
C29_BufferKeepsEveryEvent ==
    [][\A s \in Clients :
        pktWTCE_Write(s) =>
            LET a == clients[s].area
            IN /\ Len(areas'[a].buffer) = Len(areas[a].buffer)
               /\ areas'[a].buffer = Append(Tail(areas[a].buffer), "JUD")]_vars

(* C30: the evidence list carried by an LE packet is the area's evidence   *)
(* list as it was at one instant: a value the list has had between the     *)
(* return of GetEvidence and the transmission.                             *)
C30_LEIsSnapshot ==
    [][\A s \in Clients :
        pktEvi_Send(s) => Joined_LE(s) \in clients[s].arg.seen]_vars

(* C31: the server's player count never exceeds the configured maximum,    *)
(* whatever the order of the askchaa and RD packets of the sessions.       *)
C31_PlayerCountBounded ==
    playerCount <= MaxPlayers

(* C32: an HI, ID, askchaa or RD of a session that has joined changes no   *)
(* state and writes no packet; a repeated RD allocates no uid and raises   *)
(* neither the server's nor the area's player count.                       *)
C32_HandshakeAfterJoin ==
    [][\A s \in Clients :
        (/\ clients[s].uid # NoUid
         /\ \/ \E h \in HdidFields : pktHdid(s, h)
            \/ pktId(s)
            \/ pktResCount(s)
            \/ pktReqDone(s))
            => /\ clients' = clients
               /\ areas' = areas
               /\ playerCount' = playerCount
               /\ users' = users /\ bans' = bans
               /\ out' = << >>]_vars

(* A joined session sent RD again. *)
C32_Witness ==
    /\ last.op = "RD" /\ last.res = "dropped"
    /\ clients[last.s].uid # NoUid
    /\ areas[0].players = 1
    /\ playerCount = 1

(* C33: every session that stands in an area whose lock is locked is in    *)
(* the invited set of that area or holds BYPASS_LOCK.                      *)
C33_LockedAreaHoldsInvitedOnly ==
    \A c \in Clients :
        (/\ clients[c].conn
         /\ clients[c].uid # NoUid
         /\ clients[c].area \in Areas
         /\ areas[clients[c].area].lock = "locked")
            => \/ clients[c].uid \in areas[clients[c].area].invited
               \/ HasPermission(clients[c].perms, {"BYPASS_LOCK"})

(* C34: of the sessions without the CM permission that seat themselves     *)
(* with /cm, at most one is in the CM set of an area, also when they send  *)
(* /cm at the same time.                                                   *)
C34_OneSelfSeatedCM ==
    \A a \in Areas :
        Cardinality({c \in Clients : /\ clients[c].conn
                                     /\ clients[c].area = a
                                     /\ HasCM(areas[a], clients[c].uid)
                                     /\ ~HasPermission(clients[c].perms, {"CM"})}) <= 1

(* C35: in an area whose evidence mode is cms or mods, a PE, DE or EE      *)
(* packet of a session for which CanAlterEvidence is false leaves the      *)
(* evidence of the area as it was.                                         *)
C35_EvidenceKeptFromOthers ==
    [][\A s \in Clients :
          (/\ clients[s].area \in Areas
           /\ areas[clients[s].area].evidenceMode \in {"cms", "mods"}
           /\ ~CanAlterEvidence(Start(s), s)
           /\ \/ \E evi \in EviItems : pktAddEvi(s, evi)
              \/ \E id \in EviIds : pktRemoveEvi(s, id)
              \/ \E id \in EviIds, evi \in EviItems : pktEditEvi(s, id, evi))
          => areas'[clients[s].area].evidence = areas[clients[s].area].evidence]_vars

(* C36: an MS packet with 15 fields or more is handled without fault: it   *)
(* is dropped or sent on to the area, whatever its number of fields.       *)
C36_ICHandledWithoutFault ==
    [][\A s \in Clients, p \in MSPackets :
          (p.args >= 15 /\ pktIC(s, p))
          => (~crashed' /\ last'.res # "panic")]_vars

(* C37: a toggle command whose argument is neither true nor false leaves   *)
(* the area as it was, toggles and buffer included, and sends the error    *)
(* message to the caller and nothing else.                                 *)
C37_BadToggleChangesNothing ==
    [][\A s \in Clients, arg \in Toggles \ {"true", "false"} :
          (Runs("allowcms", s) /\ cmdAllowCMs(s, arg))
          => (areas' = areas /\ out' = <<Pkt(s, "SM:Invalid command.")>>)]_vars

(* C38: the caller of /move is sent "Moved to <area>." only by a /move     *)
(* after which its area is the requested one; a refused /move does not     *)
(* send it.                                                                *)
C38_MovedToOnlyAfterMove ==
    [][\A s \in Clients, id \in AreaIds :
          (/\ Runs("move", s)
           /\ cmdMove(s, << >>, id)
           /\ \E i \in DOMAIN out' : out'[i] = Pkt(s, "SM:moved to"))
          => (last'.res = "ok" /\ clients'[s].area = id)]_vars

====
